---- MODULE Spec2Model ----
(***************************************************************************)
(* State-machine model of the web dashboard's telemetry core:              *)
(*   - DataStore (src/web/dataStore.js): the ring buffer of snapshots;     *)
(*   - the REST handlers of src/web/routes/api.js that read it.            *)
(*                                                                         *)
(* JavaScript values are modelled as follows.                              *)
(*   - an object is a function from field names to values; a missing field *)
(*     is a name outside the DOMAIN;                                       *)
(*   - null / undefined / "no value" is the empty tuple <<>> and a present *)
(*     value x is <<x>>, wherever a position can hold either;              *)
(*   - an array is a sequence; whether two array references denote the     *)
(*     same array object is tracked explicitly (held.alias);               *)
(*   - a Number that the code divides is an exact fraction [num, den].     *)
(***************************************************************************)
EXTENDS Integers, Sequences, FiniteSets, TLC

(***************************************************************************)
(* Bounds of the model.                                                    *)
(***************************************************************************)
MaxCap == 3        \* capacities 1..MaxCap are constructed
MaxAdds == 4       \* add() is called at most MaxAdds times
MaxClock == 2      \* the clock runs from 1 to MaxClock
MaxCount == 3      \* getRecent(count) with count in 0..MaxCount
MaxChanges == 1    \* a caller changes the array it was given MaxChanges times
MaxPerfAdds == 3    \* GET /performance is studied over at most MaxPerfAdds snapshots
MaxWsAdds == 2      \* the main loop adds and broadcasts at most MaxWsAdds snapshots
MaxPings == 1       \* a consumer sends at most MaxPings application-level pings
MaxSilent == 3      \* the heartbeat ticks a consumer leaves unanswered are counted up to MaxSilent
BacklogLimit == 2   \* the unread messages a consumer may have queued
MaxReplayAdds == 3  \* the snapshots added while consumers leave and come back
MaxGreetings == 2   \* a consumer is sent at most MaxGreetings 'snapshot' messages
MaxFailures == 10   \* at most MaxFailures connection attempts in a row fail
MaxDashAdds == 52   \* the snapshots added while the dashboard is watched
MaxDuringLoad == 2  \* the snapshots added while fetchInitialData runs

(***************************************************************************)
(* Program constants.                                                      *)
(***************************************************************************)
DefaultCount == 100    \* getRecent(count = 100)
DefaultLimit == 100    \* parseInt(req.query.limit) || 100
MaxLimit == 1000       \* Math.min(..., 1000)
DefaultOffset == 0     \* parseInt(req.query.offset) || 0
MsPerSecond == 1000    \* formatUptime: ms / 1000; ISO strings: .sss
SecondsPerMinute == 60
MinutesPerHour == 60
HoursPerDay == 24
Percent == 100         \* getStats: (length / maxSize) * 100
NotFound == 404         \* res.status(404)
Ok == 200               \* res.json() without res.status()
CONNECTING == 0         \* WebSocket.readyState before the connection event
OPEN == 1               \* client.readyState === 1
CLOSING == 2            \* WebSocket.readyState while the connection closes
CLOSED == 3             \* WebSocket.readyState once the close event has fired
reconnectInterval == 1000       \* WSClient options: ms
maxReconnectInterval == 30000   \* WSClient options: ms
maxSignalHistory == 50          \* Dashboard.maxSignalHistory
HistoryLimit == 50              \* fetch("/api/history?limit=50")
DefaultMaxSize == 3600          \* new DataStore(): maxSize = 3600

VARIABLES
  maxSize,     \* DataStore.maxSize
  buffer,      \* DataStore.buffer
  startTime,   \* DataStore.startTime
  clock,       \* the value Date.now() returns
  held,        \* the array a caller got from getAll/getRecent and keeps until
               \* its next call: its elements, and whether it is the very
               \* array object this.buffer refers to
  last,        \* the last operation and what it returned
  adds,        \* history: the number of add() calls
  log,         \* history: the snapshots stored since the last clear(), in
               \* the order of the add calls
  cleared,     \* history: clear() has been called
  clients,     \* ws.js: the Set clients, in insertion order
  sockets,     \* the WebSocket object of every consumer: its readyState and
               \* isAlive, whether its send throws, the messages send was
               \* given, and how many of them the consumer has not read yet;
               \* history: the heartbeat ticks since it connected or answered
  heartbeatInterval,  \* the heartbeat timer: "set" or "cleared"
  shutdown,    \* how far close() of the web server has got
  client,      \* the dashboard's WSClient: whether this.ws is set,
               \* reconnectAttempts, reconnectTimeout and forcedClose
  socket,      \* the readyState of the WebSocket the WSClient created last
  timer,       \* the pending timeout of scheduleReconnect: null, or its delay
  reachable,   \* the server accepts connections
  delays,      \* history: the delays scheduled since the last open
  signalHistory,  \* Dashboard.signalHistory
  fetching,    \* how far fetchInitialData has got, the response on its way,
               \* and history: the number of add() calls when it started
  handled,     \* the number of pushed messages the dashboard has handled
  uncaught     \* an exception has escaped a handler of the channel

storeVars == <<maxSize, buffer, startTime, clock, held, last, adds, log, cleared>>
wsVars == <<clients, sockets, heartbeatInterval, shutdown, uncaught>>
browserVars == <<client, socket, timer, reachable, delays,
                 signalHistory, fetching, handled>>
vars == <<maxSize, buffer, startTime, clock, held, last, adds, log, cleared,
          clients, sockets, heartbeatInterval, shutdown, uncaught,
          client, socket, timer, reachable, delays,
          signalHistory, fetching, handled>>

Null == <<>>
Some(x) == <<x>>

Min(a, b) == IF a <= b THEN a ELSE b
Max(a, b) == IF a >= b THEN a ELSE b

(***************************************************************************)
(* Numbers                                                                 *)
(***************************************************************************)
RECURSIVE Gcd(_, _)
Gcd(a, b) == IF b = 0 THEN a ELSE Gcd(b, a % b)

\* The quotient n / d of two integers, d > 0, in lowest terms.
Divide(n, d) == [num |-> n \div Gcd(n, d), den |-> d \div Gcd(n, d)]

\* q * k for a fraction q and an integer k.
Times(q, k) == Divide(q.num * k, q.den)

\* Number.prototype.toFixed(2) of a non-negative fraction: the decimal
\* rounded (half up) to two digits, as its integer part and its digits.
toFixed2(q) ==
  LET scale == 10 * 10
      h == (2 * q.num * scale + q.den) \div (2 * q.den)
  IN  [int |-> h \div scale, digits |-> h % scale]

\* Date.prototype.toISOString of the time t (ms): "<date-time s>.<sss>Z".
toISOString(t) == [seconds |-> t \div MsPerSecond, millis |-> t % MsPerSecond]

(***************************************************************************)
(* Arrays                                                                  *)
(***************************************************************************)
\* Array.prototype.slice(start, end): negative indices count from the end.
slice(arr, start, end) ==
  LET len == Len(arr)
      k == IF start < 0 THEN Max(len + start, 0) ELSE Min(start, len)
      f == IF end < 0 THEN Max(len + end, 0) ELSE Min(end, len)
  IN  SubSeq(arr, k + 1, f)

\* Array.prototype.slice(start): end defaults to the length.
sliceFrom(arr, start) == slice(arr, start, Len(arr))

\* [...arr]: a new array with the elements of arr.
spread(arr) == [elems |-> arr, alias |-> FALSE]

\* arr.slice(-count): a new array too.
sliceLast(arr, count) == [elems |-> sliceFrom(arr, 0 - count), alias |-> FALSE]

(***************************************************************************)
(* Snapshots                                                               *)
(***************************************************************************)
\* What the producer passes to add() at its k-th tick: the tick's number (which
\* tells the snapshots apart), with or without a timestamp of its own (the
\* producer's is older than every value of the clock).
Raws(k) == {[value |-> k], [value |-> k, timestamp |-> 0]}

\* The stamp written before the spread: the producer's timestamp survives.
stampBeforeSpread(snapshot, now, later) ==
  [f \in DOMAIN snapshot \cup {"timestamp", "_addedAt"} |->
     IF f \in DOMAIN snapshot THEN snapshot[f]
     ELSE IF f = "timestamp" THEN now
     ELSE toISOString(later)]

\* { ...snapshot, timestamp: Date.now(), _addedAt: new Date().toISOString() }
\* now is the first clock read, later the second.
timestampedSnapshot(snapshot, now, later) ==
  [f \in DOMAIN snapshot \cup {"timestamp", "_addedAt"} |->
     IF f = "timestamp" THEN now
     ELSE IF f = "_addedAt" THEN toISOString(later)
     ELSE snapshot[f]]

(***************************************************************************)
(* DataStore (src/web/dataStore.js)                                        *)
(***************************************************************************)
\* Eviction as soon as the buffer reaches the capacity (>= for >).
pushShiftEarly(buf, s, cap) ==
  LET pushed == Append(buf, s)
  IN  IF Len(pushed) >= cap THEN Tail(pushed) ELSE pushed

\* Eviction at the wrong end (pop for shift).
pushPop(buf, s, cap) ==
  LET pushed == Append(buf, s)
  IN  IF Len(pushed) > cap THEN SubSeq(pushed, 1, Len(pushed) - 1) ELSE pushed

\* The producer's one object stamped in place and pushed: every retained
\* entry is that same object.
pushShared(buf, s, cap) ==
  LET pushed == Append([i \in 1..Len(buf) |-> s], s)
  IN  IF Len(pushed) > cap THEN Tail(pushed) ELSE pushed

\* add: this.buffer.push(s); if (this.buffer.length > this.maxSize) shift().
pushShift(buf, s, cap) ==
  LET pushed == Append(buf, s)
  IN  IF Len(pushed) > cap THEN Tail(pushed) ELSE pushed

\* getRecent(count)
getRecentResult(buf, count) ==
  IF count >= Len(buf) THEN spread(buf) ELSE sliceLast(buf, count)

\* return this.buffer: the Store's own array.
getAllOwnArray(buf) == [elems |-> buf, alias |-> TRUE]

\* getAll()
getAllResult(buf) == spread(buf)

\* The first element for the last.
getLastFirst(buf) == IF Len(buf) > 0 THEN Some(buf[1]) ELSE Null

\* getLast()
getLastResult(buf) == IF Len(buf) > 0 THEN Some(buf[Len(buf)]) ELSE Null

\* The utilization left as a fraction of 1 (the "* 100" forgotten).
getStatsFraction(buf, cap, start, now) ==
  [count |-> Len(buf),
   maxSize |-> cap,
   utilization |-> Divide(Len(buf), cap),
   uptimeMs |-> now - start,
   oldestTimestamp |-> IF Len(buf) > 0 THEN Some(buf[1].timestamp) ELSE Null,
   newestTimestamp |-> IF Len(buf) > 0 THEN Some(buf[Len(buf)].timestamp) ELSE Null]

\* getStats(), now being the value of Date.now()
getStatsResult(buf, cap, start, now) ==
  [count |-> Len(buf),
   maxSize |-> cap,
   utilization |-> Times(Divide(Len(buf), cap), Percent),
   uptimeMs |-> now - start,
   oldestTimestamp |-> IF Len(buf) > 0 THEN Some(buf[1].timestamp) ELSE Null,
   newestTimestamp |-> IF Len(buf) > 0 THEN Some(buf[Len(buf)].timestamp) ELSE Null]

\* No array is held by a caller.
NoArray == [elems |-> <<>>, alias |-> FALSE, given |-> FALSE, changes |-> 0]

\* The caller keeps the array r that a call returned.
keep(r) == [elems |-> r.elems, alias |-> r.alias, given |-> TRUE, changes |-> 0]


\* The consumers that may connect.
Consumers == {1, 2, 3}

\* The WebSocket of a consumer that has not connected yet.
NoSocket ==
  [readyState |-> CONNECTING, isAlive |-> FALSE, throws |-> FALSE,
   sent |-> <<>>, bufferedAmount |-> 0, silentTicks |-> 0]

\* The page has not called fetchInitialData yet.  since is history: the
\* number of add() calls when it does.
NotFetching == [stage |-> "idle", response |-> Null, since |-> 0]

\* The WSClient after its constructor, which ends with connect().
NewClient ==
  [ws |-> TRUE, reconnectAttempts |-> 0, reconnectTimeout |-> Null,
   forcedClose |-> FALSE]

Init ==
  /\ maxSize \in 1..MaxCap
  /\ buffer = <<>>
  /\ clock = 1
  /\ startTime = 1
  /\ held = NoArray
  /\ last = [op |-> "new"]
  /\ adds = 0
  /\ log = <<>>
  /\ cleared = FALSE
  /\ clients = <<>>
  /\ sockets = [c \in Consumers |-> NoSocket]
  /\ heartbeatInterval = "set"
  /\ shutdown = "listening"
  /\ uncaught = FALSE
  /\ client = NewClient
  /\ socket = CONNECTING
  /\ timer = Null
  /\ reachable = FALSE
  /\ delays = <<>>
  /\ signalHistory = <<>>
  /\ fetching = NotFetching
  /\ handled = 0

\* Time passes.
Tick ==
  /\ clock < MaxClock
  /\ clock' = clock + 1
  /\ UNCHANGED <<maxSize, buffer, startTime, held, last, adds, log, cleared>>

\* store.add(snapshot); the clock may advance by d between the two reads.
add(snapshot, d) ==
  /\ adds < MaxAdds
  /\ adds' = adds + 1
  /\ clock + d <= MaxClock
  /\ LET s == timestampedSnapshot(snapshot, clock, clock + d)
     IN  /\ buffer' = pushShift(buffer, s, maxSize)
         /\ log' = Append(log, s)
         /\ last' = [op |-> "add", snapshot |-> snapshot, now |-> clock]
  /\ clock' = clock + d
  /\ held' = NoArray
  /\ UNCHANGED <<maxSize, startTime, cleared>>

\* store.getRecent(count); count = <<>> is a call without the argument.
getRecent(arg) ==
  LET count == IF arg = Null THEN DefaultCount ELSE arg[1]
      r == getRecentResult(buffer, count)
  IN  /\ held' = keep(r)
      /\ last' = [op |-> "getRecent", count |-> count, result |-> r.elems]
      /\ UNCHANGED <<maxSize, buffer, startTime, clock, adds, log, cleared>>

\* getAll() that hands the buffer over and starts a new one.
getAllDrains ==
  LET r == getAllResult(buffer)
  IN  /\ held' = keep(r)
      /\ last' = [op |-> "getAll", result |-> r.elems]
      /\ buffer' = <<>>
      /\ UNCHANGED <<maxSize, startTime, clock, adds, log, cleared>>

getAll ==
  LET r == getAllResult(buffer)
  IN  /\ held' = keep(r)
      /\ last' = [op |-> "getAll", result |-> r.elems]
      /\ UNCHANGED <<maxSize, buffer, startTime, clock, adds, log, cleared>>

getLast ==
  /\ last' = [op |-> "getLast", result |-> getLastResult(buffer)]
  /\ held' = NoArray
  /\ UNCHANGED <<maxSize, buffer, startTime, clock, adds, log, cleared>>

getStats ==
  /\ last' = [op |-> "getStats",
              result |-> getStatsResult(buffer, maxSize, startTime, clock)]
  /\ held' = NoArray
  /\ UNCHANGED <<maxSize, buffer, startTime, clock, adds, log, cleared>>

\* clear() that builds the store anew.
clearAndRestart ==
  /\ buffer' = <<>>
  /\ held' = NoArray
  /\ log' = <<>>
  /\ cleared' = TRUE
  /\ last' = [op |-> "clear"]
  /\ startTime' = clock
  /\ UNCHANGED <<maxSize, clock, adds>>

\* store.clear(): this.buffer = [] is a new array object.
clear ==
  /\ buffer' = <<>>
  /\ held' = NoArray
  /\ log' = <<>>
  /\ cleared' = TRUE
  /\ last' = [op |-> "clear"]
  /\ UNCHANGED <<maxSize, startTime, clock, adds>>

(***************************************************************************)
(* A caller of getAll/getRecent changes the array it was given.            *)
(***************************************************************************)
Junk == [value |-> 0, timestamp |-> 0, _addedAt |-> toISOString(0)]

RECURSIVE reverse(_)
reverse(arr) ==
  IF arr = <<>> THEN <<>> ELSE Append(reverse(Tail(arr)), Head(arr))

mutated(arr, how) ==
  CASE how = "push" -> Append(arr, Junk)
    [] how = "pop" -> SubSeq(arr, 1, Len(arr) - 1)
    [] how = "reverse" -> reverse(arr)

callerMutates(how) ==
  /\ held.given
  /\ held.changes < MaxChanges
  /\ how = "pop" => Len(held.elems) > 0
  /\ how = "reverse" => Len(held.elems) > 1
  /\ held' = [held EXCEPT !.elems = mutated(held.elems, how),
                          !.changes = held.changes + 1]
  /\ buffer' = IF held.alias THEN held'.elems ELSE buffer
  /\ last' = [op |-> "callerMutates", how |-> how]
  /\ UNCHANGED <<maxSize, startTime, clock, adds, log, cleared>>

(***************************************************************************)
(* REST handlers (src/web/routes/api.js)                                   *)
(***************************************************************************)
\* A value of req.query: absent, a text that starts with no number, or the
\* decimal text of the integer n.
Absent == [kind |-> "absent", n |-> 0]
Text == [kind |-> "text", n |-> 0]
Digits(n) == [kind |-> "digits", n |-> n]

LimitQueries == {Absent, Text} \cup {Digits(n) : n \in {-1, 0, 1, 2, 5000}}
OffsetQueries == {Absent, Text} \cup {Digits(n) : n \in {-1, 0, 1, 2, 3}}

\* parseInt(q): NaN for undefined and for a text without a leading number.
parseInt(q) ==
  IF q.kind = "digits" THEN [nan |-> FALSE, n |-> q.n] ELSE [nan |-> TRUE, n |-> 0]

\* x || d for a Number x: NaN and 0 are falsy.
orElse(x, d) == IF x.nan \/ x.n = 0 THEN d ELSE x.n

\* formatUptime(ms)
formatUptime(ms) ==
  LET seconds == ms \div MsPerSecond
      minutes == seconds \div SecondsPerMinute
      hours == minutes \div MinutesPerHour
      days == hours \div HoursPerDay
  IN  IF days > 0
        THEN [d |-> days, h |-> hours % HoursPerDay, m |-> minutes % MinutesPerHour]
      ELSE IF hours > 0
        THEN [h |-> hours, m |-> minutes % MinutesPerHour]
      ELSE IF minutes > 0
        THEN [m |-> minutes, s |-> seconds % SecondsPerMinute]
      ELSE [s |-> seconds]

\* res.json(body): the JSON text of an object of numbers, strings, nulls,
\* arrays and objects has the same fields with the same values.
json(body) == [status |-> Ok, body |-> body]

\* GET /status
statusResponse(buf, cap, start, now) ==
  LET stats == getStatsResult(buf, cap, start, now)
      lst == getLastResult(buf)
  IN  json([status |-> "running",
            uptime |-> stats.uptimeMs,
            uptimeFormatted |-> formatUptime(stats.uptimeMs),
            lastUpdate |-> IF lst # Null THEN Some(lst[1]._addedAt) ELSE Null,
            bufferSize |-> stats.count,
            bufferMaxSize |-> stats.maxSize,
            bufferUtilization |-> [fixed |-> toFixed2(stats.utilization),
                                   unit |-> "%"]])

\* GET /current with the error sent without res.status(404).
currentNoStatus(buf) ==
  LET snapshot == getLastResult(buf)
  IN  IF snapshot = Null
        THEN [status |-> Ok, body |-> [error |-> "No data available yet"]]
        ELSE json(snapshot[1])

\* GET /current
currentResponse(buf) ==
  LET snapshot == getLastResult(buf)
  IN  IF snapshot = Null
        THEN [status |-> NotFound, body |-> [error |-> "No data available yet"]]
        ELSE json(snapshot[1])

\* GET /history with the limit taken as parsed (Math.min(..., 1000) left out).
historyUnclamped(buf, limitQ, offsetQ) ==
  LET limit == orElse(parseInt(limitQ), DefaultLimit)
      offset == orElse(parseInt(offsetQ), DefaultOffset)
      allData == getAllResult(buf).elems
      total == Len(allData)
      start == Max(0, total - offset - limit)
      end == total - offset
      rows == slice(allData, start, end)
  IN  json([rows |-> rows,
            total |-> total,
            limit |-> limit,
            offset |-> offset,
            hasMore |-> offset + limit < total])

\* GET /history?limit=&offset=
historyResponse(buf, limitQ, offsetQ) ==
  LET limit == Min(orElse(parseInt(limitQ), DefaultLimit), MaxLimit)
      offset == orElse(parseInt(offsetQ), DefaultOffset)
      allData == getAllResult(buf).elems
      total == Len(allData)
      start == Max(0, total - offset - limit)
      end == total - offset
      rows == slice(allData, start, end)
  IN  json([rows |-> rows,
            total |-> total,
            limit |-> limit,
            offset |-> offset,
            hasMore |-> offset + limit < total])

apiStatus ==
  /\ last' = [op |-> "GET /status",
              result |-> statusResponse(buffer, maxSize, startTime, clock)]
  /\ held' = NoArray
  /\ UNCHANGED <<maxSize, buffer, startTime, clock, adds, log, cleared>>

apiCurrent ==
  /\ last' = [op |-> "GET /current", result |-> currentResponse(buffer)]
  /\ held' = NoArray
  /\ UNCHANGED <<maxSize, buffer, startTime, clock, adds, log, cleared>>

apiHistory(limitQ, offsetQ) ==
  /\ last' = [op |-> "GET /history",
              result |-> historyResponse(buffer, limitQ, offsetQ)]
  /\ held' = NoArray
  /\ UNCHANGED <<maxSize, buffer, startTime, clock, adds, log, cleared>>

(***************************************************************************)
(* The specification                                                       *)
(***************************************************************************)
GetRecentArgs == {Null} \cup {Some(c) : c \in 0..MaxCount}

Next ==
  \/ Tick /\ UNCHANGED <<wsVars, browserVars>>
  \/ \E snapshot \in Raws(adds + 1), d \in 0..1 :
       add(snapshot, d) /\ UNCHANGED <<wsVars, browserVars>>
  \/ \E arg \in GetRecentArgs : getRecent(arg) /\ UNCHANGED <<wsVars, browserVars>>
  \/ getAll /\ UNCHANGED <<wsVars, browserVars>>
  \/ getLast /\ UNCHANGED <<wsVars, browserVars>>
  \/ getStats /\ UNCHANGED <<wsVars, browserVars>>
  \/ clear /\ UNCHANGED <<wsVars, browserVars>>
  \/ \E how \in {"push", "pop", "reverse"} :
       callerMutates(how) /\ UNCHANGED <<wsVars, browserVars>>
  \/ apiStatus /\ UNCHANGED <<wsVars, browserVars>>
  \/ apiCurrent /\ UNCHANGED <<wsVars, browserVars>>
  \/ \E limitQ \in LimitQueries, offsetQ \in OffsetQueries :
       apiHistory(limitQ, offsetQ) /\ UNCHANGED <<wsVars, browserVars>>

Spec == Init /\ [][Next]_vars

(***************************************************************************)
(* JavaScript values, as GET /performance meets them in a snapshot.  A     *)
(* finite Number is an integer count of hundredths (0.05 is Num(5)); the   *)
(* rounding of doubles is not modelled.                                    *)
(***************************************************************************)
Undefined == [t |-> "undefined"]
JsNull == [t |-> "null"]
Str(s) == [t |-> "string", s |-> s]
Num(v) == [t |-> "number", class |-> "finite", v |-> v]
NaN == [t |-> "number", class |-> "NaN", v |-> 0]
Infinity == [t |-> "number", class |-> "Infinity", v |-> 0]
NegInfinity == [t |-> "number", class |-> "-Infinity", v |-> 0]
Obj(fields) == [t |-> "object", fields |-> fields]

\* snapshot.key
field(snapshot, key) ==
  IF key \in DOMAIN snapshot THEN snapshot[key] ELSE Undefined

\* x.key for a truthy x, x?.key for any x.
prop(x, key) ==
  IF x.t = "object" /\ key \in DOMAIN x.fields THEN x.fields[key] ELSE Undefined

\* ToBoolean(x)
truthy(x) ==
  CASE x.t \in {"undefined", "null"} -> FALSE
    [] x.t = "string" -> x.s # ""
    [] x.t = "number" -> x.class \in {"Infinity", "-Infinity"}
                          \/ (x.class = "finite" /\ x.v # 0)
    [] OTHER -> TRUE

\* x === "text"
isString(x, text) == x.t = "string" /\ x.s = text

\* typeof x === "number" && isFinite(x)
isFiniteNumber(x) == x.t = "number" /\ x.class = "finite"

\* Math.max(a, b) for a running maximum a (-Infinity or finite) and a number b.
mathMax(a, b) ==
  IF a.class = "-Infinity" THEN b
  ELSE IF b.class = "finite" /\ b.v > a.v THEN b ELSE a

\* a > -Infinity
aboveNegInfinity(a) == a.class \in {"finite", "Infinity"}

(***************************************************************************)
(* GET /performance (api.js)                                               *)
(***************************************************************************)
\* The accumulators with the maxima started at 0.
initialTotalsFromZero ==
  [buyUpCount |-> 0, buyDownCount |-> 0, noTradeCount |-> 0,
   edgeUpSum |-> 0, edgeUpCount |-> 0,
   edgeDownSum |-> 0, edgeDownCount |-> 0,
   maxEdgeUp |-> Num(0), maxEdgeDown |-> Num(0),
   positiveEdgeCount |-> 0,
   regimeCount |-> <<>>]

\* The accumulators before the loop.
initialTotals ==
  [buyUpCount |-> 0, buyDownCount |-> 0, noTradeCount |-> 0,
   edgeUpSum |-> 0, edgeUpCount |-> 0,
   edgeDownSum |-> 0, edgeDownCount |-> 0,
   maxEdgeUp |-> NegInfinity, maxEdgeDown |-> NegInfinity,
   positiveEdgeCount |-> 0,
   regimeCount |-> <<>>]

\* The signal buckets with a third test in place of the final else.
countSignalStrict(acc, snapshot) ==
  LET signal == field(snapshot, "signal")
  IN  IF isString(signal, "BUY UP") THEN [acc EXCEPT !.buyUpCount = @ + 1]
      ELSE IF isString(signal, "BUY DOWN") THEN [acc EXCEPT !.buyDownCount = @ + 1]
      ELSE IF isString(signal, "NO TRADE") THEN [acc EXCEPT !.noTradeCount = @ + 1]
      ELSE acc

\* Signal distribution.
countSignal(acc, snapshot) ==
  LET signal == field(snapshot, "signal")
  IN  IF isString(signal, "BUY UP") THEN [acc EXCEPT !.buyUpCount = @ + 1]
      ELSE IF isString(signal, "BUY DOWN") THEN [acc EXCEPT !.buyDownCount = @ + 1]
      ELSE [acc EXCEPT !.noTradeCount = @ + 1]

\* One edge channel that takes every value of type number.
tallyAnyNumber(acc, x, sum, count, max) ==
  IF x.t = "number"
  THEN [acc EXCEPT ![sum] = @ + x.v,
                   ![count] = @ + 1,
                   ![max] = mathMax(@, x),
                   !.positiveEdgeCount = IF x.v > 0 THEN @ + 1 ELSE @]
  ELSE acc

\* One edge channel: x is snapshot.edge.edgeUp or snapshot.edge.edgeDown,
\* sum, count and max name the channel's accumulators.
tally(acc, x, sum, count, max) ==
  IF isFiniteNumber(x)
  THEN [acc EXCEPT ![sum] = @ + x.v,
                   ![count] = @ + 1,
                   ![max] = mathMax(@, x),
                   !.positiveEdgeCount = IF x.v > 0 THEN @ + 1 ELSE @]
  ELSE acc

\* Edge statistics.
aggregateEdge(acc, snapshot) ==
  LET edge == field(snapshot, "edge")
  IN  IF truthy(edge)
      THEN tally(tally(acc, prop(edge, "edgeUp"),
                       "edgeUpSum", "edgeUpCount", "maxEdgeUp"),
                 prop(edge, "edgeDown"),
                 "edgeDownSum", "edgeDownCount", "maxEdgeDown")
      ELSE acc

\* The regime label without the regimeInfo fallback.
regimeOfField(snapshot) ==
  LET regime == field(snapshot, "regime")
  IN  IF truthy(regime) THEN regime ELSE Str("UNKNOWN")

\* snapshot.regime || snapshot.regimeInfo?.regime || "UNKNOWN"
regimeOf(snapshot) ==
  LET regime == field(snapshot, "regime")
      nested == prop(field(snapshot, "regimeInfo"), "regime")
  IN  IF truthy(regime) THEN regime
      ELSE IF truthy(nested) THEN nested
      ELSE Str("UNKNOWN")

\* Regime distribution: regimeCount[regime] = (regimeCount[regime] || 0) + 1
countRegime(acc, snapshot) ==
  LET regime == regimeOf(snapshot).s
  IN  [acc EXCEPT !.regimeCount =
         IF regime \in DOMAIN @
         THEN [@ EXCEPT ![regime] = @ + 1]
         ELSE (regime :> 1) @@ @]

\* The body of the loop for one snapshot.
accumulate(acc, snapshot) ==
  countRegime(aggregateEdge(countSignal(acc, snapshot), snapshot), snapshot)

\* for (const snapshot of data)
RECURSIVE aggregate(_, _)
aggregate(acc, data) ==
  IF data = <<>> THEN acc
  ELSE aggregate(accumulate(acc, Head(data)), Tail(data))

\* The report for an empty History.
emptyReport ==
  [totalSignals |-> 0,
   buyUpCount |-> 0, buyDownCount |-> 0, noTradeCount |-> 0,
   averageEdgeUp |-> Null, averageEdgeDown |-> Null,
   maxEdgeUp |-> Null, maxEdgeDown |-> Null,
   positiveEdgeCount |-> 0,
   regimeDistribution |-> <<>>]

\* The report with 0 where an average or a maximum has no value.
performanceReportZeros(data) ==
  LET t == aggregate(initialTotals, data)
  IN  [totalSignals |-> Len(data),
       buyUpCount |-> t.buyUpCount,
       buyDownCount |-> t.buyDownCount,
       noTradeCount |-> t.noTradeCount,
       averageEdgeUp |-> IF t.edgeUpCount > 0
                         THEN Some(Divide(t.edgeUpSum, t.edgeUpCount))
                         ELSE Some(Divide(0, 1)),
       averageEdgeDown |-> IF t.edgeDownCount > 0
                           THEN Some(Divide(t.edgeDownSum, t.edgeDownCount))
                           ELSE Some(Divide(0, 1)),
       maxEdgeUp |-> IF aboveNegInfinity(t.maxEdgeUp)
                     THEN Some(t.maxEdgeUp.v) ELSE Some(0),
       maxEdgeDown |-> IF aboveNegInfinity(t.maxEdgeDown)
                       THEN Some(t.maxEdgeDown.v) ELSE Some(0),
       positiveEdgeCount |-> t.positiveEdgeCount,
       regimeDistribution |-> t.regimeCount]

\* The report with the averages taken over all snapshots.
performanceReportPerSnapshot(data) ==
  IF Len(data) = 0 THEN emptyReport
  ELSE
  LET t == aggregate(initialTotals, data)
  IN  [totalSignals |-> Len(data),
       buyUpCount |-> t.buyUpCount,
       buyDownCount |-> t.buyDownCount,
       noTradeCount |-> t.noTradeCount,
       averageEdgeUp |-> IF t.edgeUpCount > 0
                         THEN Some(Divide(t.edgeUpSum, Len(data)))
                         ELSE Null,
       averageEdgeDown |-> IF t.edgeDownCount > 0
                           THEN Some(Divide(t.edgeDownSum, Len(data)))
                           ELSE Null,
       maxEdgeUp |-> IF aboveNegInfinity(t.maxEdgeUp)
                     THEN Some(t.maxEdgeUp.v) ELSE Null,
       maxEdgeDown |-> IF aboveNegInfinity(t.maxEdgeDown)
                       THEN Some(t.maxEdgeDown.v) ELSE Null,
       positiveEdgeCount |-> t.positiveEdgeCount,
       regimeDistribution |-> t.regimeCount]

\* The object GET /performance sends for the snapshots in data.
performanceReport(data) ==
  IF Len(data) = 0 THEN emptyReport
  ELSE
  LET t == aggregate(initialTotals, data)
  IN  [totalSignals |-> Len(data),
       buyUpCount |-> t.buyUpCount,
       buyDownCount |-> t.buyDownCount,
       noTradeCount |-> t.noTradeCount,
       averageEdgeUp |-> IF t.edgeUpCount > 0
                         THEN Some(Divide(t.edgeUpSum, t.edgeUpCount))
                         ELSE Null,
       averageEdgeDown |-> IF t.edgeDownCount > 0
                           THEN Some(Divide(t.edgeDownSum, t.edgeDownCount))
                           ELSE Null,
       maxEdgeUp |-> IF aboveNegInfinity(t.maxEdgeUp)
                     THEN Some(t.maxEdgeUp.v) ELSE Null,
       maxEdgeDown |-> IF aboveNegInfinity(t.maxEdgeDown)
                       THEN Some(t.maxEdgeDown.v) ELSE Null,
       positiveEdgeCount |-> t.positiveEdgeCount,
       regimeDistribution |-> t.regimeCount]

\* GET /performance that takes the snapshots out of the store's own array
\* while it reads them.
apiPerformanceDraining ==
  /\ last' = [op |-> "GET /performance",
              result |-> json(performanceReport(getAllResult(buffer).elems))]
  /\ buffer' = <<>>
  /\ held' = NoArray
  /\ UNCHANGED <<maxSize, startTime, clock, adds, log, cleared>>

\* GET /performance from counters kept up to date by add and never given
\* back on eviction.
apiPerformanceRunning ==
  /\ last' = [op |-> "GET /performance",
              result |-> json(performanceReport(log))]
  /\ held' = NoArray
  /\ UNCHANGED <<maxSize, buffer, startTime, clock, adds, log, cleared>>

\* GET /performance
apiPerformance ==
  /\ last' = [op |-> "GET /performance",
              result |-> json(performanceReport(getAllResult(buffer).elems))]
  /\ held' = NoArray
  /\ UNCHANGED <<maxSize, buffer, startTime, clock, adds, log, cleared>>

(***************************************************************************)
(* The store fed with analysis snapshots and read by GET /performance.     *)
(***************************************************************************)
\* The snapshots add is given as its k-th argument: the fields GET
\* /performance reads, present, absent, and with each kind of value.
PerfRaws(k) ==
  << [value |-> k, signal |-> Str("BUY UP"),
      edge |-> Obj([edgeUp |-> Num(5), edgeDown |-> Num(-2)]),
      regime |-> Str("TREND_UP")],
     [value |-> k, signal |-> Str("NO TRADE"),
      edge |-> Obj([edgeUp |-> Num(10)]),
      regimeInfo |-> Obj([regime |-> Str("RANGE")])],
     [value |-> k, signal |-> Str("BUY DOWN"),
      edge |-> Obj([edgeUp |-> NaN, edgeDown |-> Num(3)]),
      regime |-> Str("RANGE"),
      regimeInfo |-> Obj([regime |-> Str("TREND_UP")])],
     [value |-> k],
     [value |-> k, signal |-> Str("HOLD"),
      edge |-> JsNull,
      regime |-> JsNull,
      regimeInfo |-> Obj([confidence |-> Num(50)])],
     [value |-> k, signal |-> JsNull,
      edge |-> Obj([edgeUp |-> Infinity, edgeDown |-> NegInfinity]),
      regimeInfo |-> JsNull],
     [value |-> k, signal |-> Str("BUY UP"),
      edge |-> Obj([edgeUp |-> JsNull, edgeDown |-> Str("0.3")]),
      regime |-> Str("TREND_UP")],
     [value |-> k, signal |-> Str("NO TRADE"),
      edge |-> Obj([edgeUp |-> Num(0), edgeDown |-> Num(-4)]),
      regime |-> Str("RANGE")] >>

NextPerf ==
  \/ \E i \in 1..Len(PerfRaws(adds + 1)) :
       /\ adds < MaxPerfAdds
       /\ add(PerfRaws(adds + 1)[i], 0)
       /\ UNCHANGED <<wsVars, browserVars>>
  \/ apiPerformance /\ UNCHANGED <<wsVars, browserVars>>
  \/ clear /\ UNCHANGED <<wsVars, browserVars>>

SpecPerf == Init /\ [][NextPerf]_vars

(***************************************************************************)
(* The live channel (ws.js).  The WebSocket objects are those of the ws    *)
(* package in the version whose ES module exports WebSocketServer: send on *)
(* a socket that is not open does not throw and transmits nothing, and     *)
(* WebSocketServer.close() leaves the connected sockets alone.             *)
(***************************************************************************)
\* JSON.stringify(value): the text that parses back to value, for a value
\* made of numbers, strings and objects.
JSONstringify(value) == [json |-> value]

snapshotMessage(current) ==
  JSONstringify([type |-> "snapshot", data |-> current])

updateMessage(data, now) ==
  JSONstringify([type |-> "update", data |-> data, timestamp |-> now])

pongMessage(now) ==
  JSONstringify([type |-> "pong", timestamp |-> now])

\* ws.send(message) that returns: the call is recorded; the message is
\* queued for the consumer only on an open socket.
afterSend(ws, message) ==
  [ws EXCEPT !.sent = Append(@, message),
             !.bufferedAmount = IF ws.readyState = OPEN THEN @ + 1 ELSE @]

\* clients.add(c)
setAdd(list, c) ==
  IF \E i \in 1..Len(list) : list[i] = c THEN list ELSE Append(list, c)

\* clients.delete(c)
setDelete(list, c) == SelectSeq(list, LAMBDA x : x # c)

\* wss.clients: the sockets the WebSocketServer holds, from the connection
\* to the close event.
wssClients == {c \in Consumers : sockets[c].readyState \in {OPEN, CLOSING}}

\* The connection handler without the message of the current state.
wsConnectionSilent(c) ==
  /\ shutdown = "listening"
  /\ sockets[c].readyState = CONNECTING
  /\ clients' = setAdd(clients, c)
  /\ sockets' = [sockets EXCEPT ![c].readyState = OPEN, ![c].isAlive = TRUE]
  /\ UNCHANGED <<storeVars, heartbeatInterval, shutdown, uncaught>>

\* wss.on("connection"): consumer c connects.
wsConnection(c) ==
  /\ shutdown = "listening"
  /\ sockets[c].readyState = CONNECTING
  /\ clients' = setAdd(clients, c)
  /\ LET current == getLastResult(buffer)
         ws == [sockets[c] EXCEPT !.readyState = OPEN]
         greeted == IF current # Null
                    THEN IF ws.throws THEN ws
                         ELSE afterSend(ws, snapshotMessage(current[1]))
                    ELSE ws
     IN  sockets' = [sockets EXCEPT ![c] = [greeted EXCEPT !.isAlive = TRUE]]
  /\ UNCHANGED <<storeVars, heartbeatInterval, shutdown, uncaught>>

\* A pong that arrives and leaves isAlive as it is.
wsPongIgnored(c) ==
  /\ sockets[c].readyState = OPEN
  /\ sockets' = [sockets EXCEPT ![c].silentTicks = 0]
  /\ UNCHANGED <<storeVars, clients, heartbeatInterval, shutdown, uncaught>>

\* ws.on("pong"): the consumer's answer to a probe arrives.
wsPong(c) ==
  /\ sockets[c].readyState = OPEN
  /\ sockets' = [sockets EXCEPT ![c].isAlive = TRUE, ![c].silentTicks = 0]
  /\ UNCHANGED <<storeVars, clients, heartbeatInterval, shutdown, uncaught>>

\* The texts a consumer sends.
Payloads ==
  {"{\"type\":\"ping\"}", "{\"type\":\"subscribe\"}", "{}", "null", "5",
   "\"ping\"", "ping"}

\* JSON.parse(text): the value, or a SyntaxError.
JSONparse(text) ==
  CASE text = "{\"type\":\"ping\"}" ->
         [ok |-> TRUE, value |-> Obj([type |-> Str("ping")])]
    [] text = "{\"type\":\"subscribe\"}" ->
         [ok |-> TRUE, value |-> Obj([type |-> Str("subscribe")])]
    [] text = "{}" -> [ok |-> TRUE, value |-> Obj(<<>>)]
    [] text = "null" -> [ok |-> TRUE, value |-> JsNull]
    [] text = "5" -> [ok |-> TRUE, value |-> Num(5)]
    [] text = "\"ping\"" -> [ok |-> TRUE, value |-> Str("ping")]
    [] OTHER -> [ok |-> FALSE, value |-> Undefined]

\* The message handler without its try/catch.
handleMessageUnguarded(ws, text, now) ==
  LET parsed == JSONparse(text)
  IN  IF ~parsed.ok \/ parsed.value.t \in {"null", "undefined"}
      THEN [socket |-> ws, uncaught |-> TRUE]
      ELSE IF isString(prop(parsed.value, "type"), "ping")
           THEN IF ws.throws
                THEN [socket |-> ws, uncaught |-> TRUE]
                ELSE [socket |-> afterSend(ws, pongMessage(now)),
                      uncaught |-> FALSE]
           ELSE [socket |-> ws, uncaught |-> FALSE]

\* ws.on("message") for the payload text on socket ws: the socket afterwards,
\* and whether an exception escaped.  JSON.parse throws on text that is no
\* JSON, data.type throws on null; both, and a throwing send, are caught.
handleMessage(ws, text, now) ==
  LET parsed == JSONparse(text)
  IN  IF ~parsed.ok \/ parsed.value.t \in {"null", "undefined"}
      THEN [socket |-> ws, uncaught |-> FALSE]
      ELSE IF isString(prop(parsed.value, "type"), "ping")
           THEN IF ws.throws
                THEN [socket |-> ws, uncaught |-> FALSE]
                ELSE [socket |-> afterSend(ws, pongMessage(now)),
                      uncaught |-> FALSE]
           ELSE [socket |-> ws, uncaught |-> FALSE]

\* The number of pong messages among the messages sent.
pongs(sent) ==
  Cardinality({i \in 1..Len(sent) : sent[i].json.type = "pong"})

\* A message from consumer c arrives.
wsMessage(c, text) ==
  /\ sockets[c].readyState = OPEN
  /\ pongs(sockets[c].sent) < MaxPings
  /\ LET r == handleMessage(sockets[c], text, clock)
     IN  /\ sockets' = [sockets EXCEPT ![c] = r.socket]
         /\ uncaught' = (uncaught \/ r.uncaught)
  /\ UNCHANGED <<storeVars, clients, heartbeatInterval, shutdown>>

\* The close handler that leaves the registry alone.
closedKept(list, c) == list

\* ws.on("close") handler: clients.delete(ws)
closed(list, c) == setDelete(list, c)

\* The close event of consumer c's socket: the connection has ended.
wsClose(c) ==
  /\ sockets[c].readyState = CLOSING
  /\ sockets' = [sockets EXCEPT ![c].readyState = CLOSED]
  /\ clients' = closed(clients, c)
  /\ UNCHANGED <<storeVars, heartbeatInterval, shutdown, uncaught>>

\* An error event that leaves the socket open.
wsErrorStaysOpen(c) ==
  /\ sockets[c].readyState = OPEN
  /\ clients' = setDelete(clients, c)
  /\ UNCHANGED <<storeVars, sockets, heartbeatInterval, shutdown, uncaught>>

\* The error event of consumer c's socket: the handler takes it out of the
\* registry, the socket goes on to close.
wsError(c) ==
  /\ sockets[c].readyState = OPEN
  /\ sockets' = [sockets EXCEPT ![c].readyState = CLOSING]
  /\ clients' = setDelete(clients, c)
  /\ UNCHANGED <<storeVars, heartbeatInterval, shutdown, uncaught>>

\* Consumer c starts to close its connection.
peerCloses(c) ==
  /\ sockets[c].readyState = OPEN
  /\ sockets' = [sockets EXCEPT ![c].readyState = CLOSING]
  /\ UNCHANGED <<storeVars, clients, heartbeatInterval, shutdown, uncaught>>

\* From now on send on consumer c's socket throws.
sendFails(c) ==
  /\ sockets[c].readyState = OPEN
  /\ ~sockets[c].throws
  /\ sockets' = [sockets EXCEPT ![c].throws = TRUE]
  /\ UNCHANGED <<storeVars, clients, heartbeatInterval, shutdown, uncaught>>

\* Consumer c reads the messages queued for it.
drains(c) ==
  /\ sockets[c].readyState = OPEN
  /\ sockets[c].bufferedAmount > 0
  /\ sockets' = [sockets EXCEPT ![c].bufferedAmount = 0]
  /\ UNCHANGED <<storeVars, clients, heartbeatInterval, shutdown, uncaught>>

\* The heartbeat that only probes.
probeOnly(ws) ==
  IF ws.readyState \in {OPEN, CLOSING}
  THEN [ws EXCEPT !.isAlive = FALSE]
  ELSE ws

\* The body of the heartbeat for one socket of wss.clients: terminate() if
\* isAlive is false, else isAlive = false and ping().
probe(ws) ==
  IF ws.readyState \in {OPEN, CLOSING}
  THEN IF ws.isAlive = FALSE
       THEN [ws EXCEPT !.readyState = CLOSING]
       ELSE [ws EXCEPT !.isAlive = FALSE]
  ELSE ws

\* History: one more tick has passed for a socket of wss.clients.
ticked(ws) ==
  IF ws.readyState \in {OPEN, CLOSING}
  THEN [ws EXCEPT !.silentTicks = Min(@ + 1, MaxSilent)]
  ELSE ws

\* The heartbeat interval fires.
heartbeat ==
  /\ heartbeatInterval = "set"
  /\ sockets' = [c \in Consumers |-> probe(ticked(sockets[c]))]
  /\ UNCHANGED <<storeVars, clients, heartbeatInterval, shutdown, uncaught>>

\* clients.forEach without the readyState test.
forEachSendAll(socks, list, message, successCount, failCount) ==
  LET RECURSIVE go(_, _, _, _)
      go(sk, l, ok, ko) ==
        IF l = <<>>
        THEN [sockets |-> sk, successCount |-> ok, failCount |-> ko,
              threw |-> FALSE]
        ELSE IF sk[Head(l)].throws
             THEN go(sk, Tail(l), ok, ko + 1)
             ELSE go([sk EXCEPT ![Head(l)] = afterSend(@, message)],
                     Tail(l), ok + 1, ko)
  IN  go(socks, list, successCount, failCount)

\* clients.forEach with one try around the whole loop.
forEachSendOneTry(socks, list, message, successCount, failCount) ==
  LET RECURSIVE go(_, _, _, _)
      go(sk, l, ok, ko) ==
        IF l = <<>>
        THEN [sockets |-> sk, successCount |-> ok, failCount |-> ko,
              threw |-> FALSE]
        ELSE IF sk[Head(l)].readyState = OPEN
             THEN IF sk[Head(l)].throws
                  THEN [sockets |-> sk, successCount |-> ok,
                        failCount |-> ko + 1, threw |-> FALSE]
                  ELSE go([sk EXCEPT ![Head(l)] = afterSend(@, message)],
                          Tail(l), ok + 1, ko)
             ELSE go(sk, Tail(l), ok, ko)
  IN  go(socks, list, successCount, failCount)

\* clients.forEach that sends the message twice.
forEachSendTwice(socks, list, message, successCount, failCount) ==
  LET RECURSIVE go(_, _, _, _)
      go(sk, l, ok, ko) ==
        IF l = <<>>
        THEN [sockets |-> sk, successCount |-> ok, failCount |-> ko,
              threw |-> FALSE]
        ELSE IF sk[Head(l)].readyState = OPEN
             THEN IF sk[Head(l)].throws
                  THEN go(sk, Tail(l), ok, ko + 1)
                  ELSE go([sk EXCEPT ![Head(l)] =
                             afterSend(afterSend(@, message), message)],
                          Tail(l), ok + 1, ko)
             ELSE go(sk, Tail(l), ok, ko)
  IN  go(socks, list, successCount, failCount)

\* clients.forEach((client) => ...) of broadcast over the clients in list:
\* the sockets afterwards and the two counters.
RECURSIVE forEachSend(_, _, _, _, _)
forEachSend(socks, list, message, successCount, failCount) ==
  IF list = <<>>
  THEN [sockets |-> socks, successCount |-> successCount,
        failCount |-> failCount, threw |-> FALSE]
  ELSE IF socks[Head(list)].readyState = OPEN
       THEN IF socks[Head(list)].throws
            THEN forEachSend(socks, Tail(list), message,
                             successCount, failCount + 1)
            ELSE forEachSend([socks EXCEPT ![Head(list)] = afterSend(@, message)],
                             Tail(list), message, successCount + 1, failCount)
       ELSE forEachSend(socks, Tail(list), message, successCount, failCount)

\* broadcast(data), called by the main loop with the snapshot it has just
\* added.
broadcast ==
  /\ last.op = "add"
  /\ LET message == updateMessage(last.snapshot, clock)
         r == forEachSend(sockets, clients, message, 0, 0)
     IN  /\ sockets' = r.sockets
         /\ last' = [op |-> "broadcast", message |-> message,
                     successCount |-> r.successCount,
                     failCount |-> r.failCount, threw |-> r.threw]
  /\ UNCHANGED <<maxSize, buffer, startTime, clock, held, adds, log, cleared,
                 clients, heartbeatInterval, shutdown, uncaught>>

\* close() of the web server is called: wss.close(callback).
serverClose ==
  /\ shutdown = "listening"
  /\ shutdown' = "wss closing"
  /\ UNCHANGED <<storeVars, clients, sockets, heartbeatInterval, uncaught>>

\* The close event of the WebSocketServer, emitted once it holds no socket:
\* clearInterval(heartbeatInterval), then the callback calls
\* httpServer.close(callback).
wssClose ==
  /\ shutdown = "wss closing"
  /\ wssClients = {}
  /\ heartbeatInterval' = "cleared"
  /\ shutdown' = "http closing"
  /\ UNCHANGED <<storeVars, clients, sockets, uncaught>>

\* The HTTP server has no connection left: its callback resolves the promise
\* of close().
httpServerClosed ==
  /\ shutdown = "http closing"
  /\ wssClients = {}
  /\ shutdown' = "resolved"
  /\ UNCHANGED <<storeVars, clients, sockets, heartbeatInterval, uncaught>>

\* The main loop adds its next snapshot.
mainLoopAdd ==
  /\ last.op # "add"
  /\ adds < MaxWsAdds
  /\ add([value |-> adds + 1], 0)
  /\ UNCHANGED wsVars

\* Consumers are told apart by the order in which they connect.
inOrder(c) ==
  \A d \in Consumers : d < c => sockets[d].readyState # CONNECTING

\* The store of the channel's web server.
InitWs == Init /\ maxSize = MaxCap

\* Fan-out: the main loop, and consumers that come, fail and go.
NextWs ==
  \/ mainLoopAdd /\ UNCHANGED browserVars
  \/ broadcast /\ UNCHANGED browserVars
  \/ \E c \in Consumers : inOrder(c) /\ wsConnection(c) /\ UNCHANGED browserVars
  \/ \E c \in Consumers : wsClose(c) /\ UNCHANGED browserVars
  \/ \E c \in Consumers : wsError(c) /\ UNCHANGED browserVars
  \/ \E c \in Consumers : peerCloses(c) /\ UNCHANGED browserVars
  \/ \E c \in Consumers : sendFails(c) /\ UNCHANGED browserVars

SpecWs == InitWs /\ [][NextWs]_vars

\* The consumers of the smaller studies.
Pair == {c \in Consumers : c <= 2}

\* Liveness checks and shutdown.
NextHeartbeat ==
  \/ mainLoopAdd /\ UNCHANGED browserVars
  \/ broadcast /\ UNCHANGED browserVars
  \/ \E c \in Pair : inOrder(c) /\ wsConnection(c) /\ UNCHANGED browserVars
  \/ \E c \in Pair : wsPong(c) /\ UNCHANGED browserVars
  \/ \E c \in Pair : wsClose(c) /\ UNCHANGED browserVars
  \/ \E c \in Pair : wsError(c) /\ UNCHANGED browserVars
  \/ \E c \in Pair : peerCloses(c) /\ UNCHANGED browserVars
  \/ heartbeat /\ UNCHANGED browserVars
  \/ serverClose /\ UNCHANGED browserVars
  \/ wssClose /\ UNCHANGED browserVars
  \/ httpServerClosed /\ UNCHANGED browserVars

SpecHeartbeat == InitWs /\ [][NextHeartbeat]_vars

\* The timer fires as long as it is set, the close event of a socket that was
\* destroyed or whose peer left is delivered, and so are the close event of
\* the WebSocketServer and the callback of httpServer.close().
SpecHeartbeatFair ==
  /\ SpecHeartbeat
  /\ WF_vars(heartbeat /\ UNCHANGED browserVars)
  /\ \A c \in Pair : WF_vars(wsClose(c) /\ UNCHANGED browserVars)
  /\ WF_vars(wssClose /\ UNCHANGED browserVars)
  /\ WF_vars(httpServerClosed /\ UNCHANGED browserVars)

\* Inbound messages.
NextInbound ==
  \/ mainLoopAdd /\ UNCHANGED browserVars
  \/ broadcast /\ UNCHANGED browserVars
  \/ \E c \in Pair : inOrder(c) /\ wsConnection(c) /\ UNCHANGED browserVars
  \/ \E c \in Pair, text \in Payloads : wsMessage(c, text) /\ UNCHANGED browserVars
  \/ \E c \in Pair : peerCloses(c) /\ UNCHANGED browserVars
  \/ \E c \in Pair : wsClose(c) /\ UNCHANGED browserVars

SpecInbound == InitWs /\ [][NextInbound]_vars

\* Consumers that read, or do not read, what is sent to them.
NextBacklog ==
  \/ mainLoopAdd /\ UNCHANGED browserVars
  \/ broadcast /\ UNCHANGED browserVars
  \/ \E c \in Pair : inOrder(c) /\ wsConnection(c) /\ UNCHANGED browserVars
  \/ \E c \in Pair : drains(c) /\ UNCHANGED browserVars
  \/ \E c \in Pair : wsPong(c) /\ UNCHANGED browserVars
  \/ \E c \in Pair : wsClose(c) /\ UNCHANGED browserVars
  \/ heartbeat /\ UNCHANGED browserVars

SpecBacklog == InitWs /\ [][NextBacklog]_vars

\* The connection handler that sends every retained snapshot as an update.
resyncReplay(ws, buf, now) ==
  LET RECURSIVE go(_, _)
      go(w, rest) ==
        IF rest = <<>> THEN w
        ELSE go(afterSend(w, updateMessage(Head(rest), now)), Tail(rest))
  IN  go(ws, getAllResult(buf).elems)

\* The first lines of the connection handler on the new socket ws: the
\* latest snapshot, if there is one, is sent as a 'snapshot' message.
resync(ws, buf, now) ==
  LET current == getLastResult(buf)
  IN  IF current # Null
      THEN IF ws.throws THEN ws
           ELSE afterSend(ws, snapshotMessage(current[1]))
      ELSE ws

\* The number of snapshot messages among the messages sent.
greetings(sent) ==
  Cardinality({i \in 1..Len(sent) : sent[i].json.type = "snapshot"})

\* wss.on("connection") for a consumer that was connected before: its old
\* socket is closed, the server sees a new one.  The new socket stands in
\* the old one's place; sent goes on as the history of what this consumer
\* was sent.
wsReconnection(c) ==
  /\ shutdown = "listening"
  /\ sockets[c].readyState = CLOSED
  /\ greetings(sockets[c].sent) < MaxGreetings
  /\ clients' = setAdd(clients, c)
  /\ LET ws == [NoSocket EXCEPT !.readyState = OPEN, !.sent = sockets[c].sent]
     IN  sockets' = [sockets EXCEPT
                       ![c] = [resync(ws, buffer, clock) EXCEPT !.isAlive = TRUE]]
  /\ UNCHANGED <<storeVars, heartbeatInterval, shutdown, uncaught>>

\* The main loop adds its next snapshot, over a longer run.
mainLoopAddOn ==
  /\ last.op # "add"
  /\ adds < MaxReplayAdds
  /\ add([value |-> adds + 1], 0)
  /\ UNCHANGED wsVars

\* The consumer that leaves and comes back.
Returning == {c \in Consumers : c <= 1}

\* A consumer that leaves and comes back, and one that stays, while the main
\* loop goes on.
NextReplay ==
  \/ mainLoopAddOn /\ UNCHANGED browserVars
  \/ broadcast /\ UNCHANGED browserVars
  \/ \E c \in Pair : inOrder(c) /\ wsConnection(c) /\ UNCHANGED browserVars
  \/ \E c \in Returning : peerCloses(c) /\ UNCHANGED browserVars
  \/ \E c \in Returning : wsClose(c) /\ UNCHANGED browserVars
  \/ \E c \in Returning : wsReconnection(c) /\ UNCHANGED browserVars

SpecReplay == InitWs /\ [][NextReplay]_vars

(***************************************************************************)
(* The dashboard's connection (wsClient.js) with the default options.  The *)
(* URL is the one getWebSocketUrl() builds, which new WebSocket() accepts. *)
(***************************************************************************)
\* WSClient options: 1.5
reconnectDecay == Divide(3, 2)

\* WSClient options
maxReconnectAttempts == Infinity

\* p * q for two fractions.
Product(p, q) == Divide(p.num * q.num, p.den * q.den)

\* Math.pow(q, k) for a fraction q and an integer k >= 0.
RECURSIVE pow(_, _)
pow(q, k) == IF k = 0 THEN Divide(1, 1) ELSE Product(q, pow(q, k - 1))

\* Math.min(p, q) for two fractions.
mathMin(p, q) == IF p.num * q.den <= q.num * p.den THEN p ELSE q

\* n >= x for an integer n and a JavaScript number x.
atLeast(n, x) ==
  IF x.class = "finite" THEN n >= x.v ELSE x.class = "-Infinity"

\* The delay without the cap of maxReconnectInterval.
backoffUncapped(n) == Times(pow(reconnectDecay, n - 1), reconnectInterval)

\* The timeout scheduleReconnect computes for the n-th attempt.
backoff(n) ==
  mathMin(Times(pow(reconnectDecay, n - 1), reconnectInterval),
          Divide(maxReconnectInterval, 1))

\* scheduleReconnect() that gives up after the fifth attempt.
scheduleReconnectFive(cl, tm) ==
  IF atLeast(cl.reconnectAttempts, Num(5))
  THEN [client |-> cl, timer |-> tm, scheduled |-> FALSE]
  ELSE LET n == cl.reconnectAttempts + 1
       IN  [client |-> [cl EXCEPT !.reconnectAttempts = n,
                                  !.reconnectTimeout = Some(n)],
            timer |-> Some([id |-> n, delay |-> backoff(n)]),
            scheduled |-> TRUE]

\* scheduleReconnect() on the client cl while the timeout tm is pending: the
\* client and the pending timeout afterwards.  Timeout n is the one of the
\* n-th attempt.
scheduleReconnect(cl, tm) ==
  IF atLeast(cl.reconnectAttempts, maxReconnectAttempts)
  THEN [client |-> cl, timer |-> tm, scheduled |-> FALSE]
  ELSE LET n == cl.reconnectAttempts + 1
       IN  [client |-> [cl EXCEPT !.reconnectAttempts = n,
                                  !.reconnectTimeout = Some(n)],
            timer |-> Some([id |-> n, delay |-> backoff(n)]),
            scheduled |-> TRUE]

\* this.ws.onclose
onclose(cl, tm) ==
  IF ~cl.forcedClose THEN scheduleReconnect(cl, tm)
  ELSE [client |-> cl, timer |-> tm, scheduled |-> FALSE]

\* The close event of the client's socket, its readyState being CLOSED.
closeEvent ==
  /\ socket' = CLOSED
  /\ LET r == onclose(client, timer)
     IN  /\ client' = r.client
         /\ timer' = r.timer
         /\ delays' = IF r.scheduled THEN Append(delays, r.timer[1].delay)
                      ELSE delays
  /\ UNCHANGED <<storeVars, wsVars, reachable, signalHistory, fetching, handled>>

\* this.ws.onopen
wsOnopen ==
  /\ socket = CONNECTING
  /\ reachable
  /\ socket' = OPEN
  /\ client' = [client EXCEPT !.reconnectAttempts = 0]
  /\ delays' = <<>>
  /\ UNCHANGED <<storeVars, wsVars, timer, reachable, signalHistory, fetching,
                 handled>>

\* The connection attempt fails: error event, then close event.
connectionFails ==
  /\ socket = CONNECTING
  /\ ~reachable
  /\ client.reconnectAttempts < MaxFailures
  /\ closeEvent

\* The open connection is lost, or the server ends it.
connectionLost ==
  /\ socket = OPEN
  /\ closeEvent

\* The closing handshake that close() started is over.
closeCompletes ==
  /\ socket = CLOSING
  /\ closeEvent

\* connect(): nothing when this.ws is open, else a new WebSocket.
connect(cl, sock) ==
  IF cl.ws /\ sock = OPEN
  THEN [client |-> cl, socket |-> sock]
  ELSE [client |-> [cl EXCEPT !.ws = TRUE], socket |-> CONNECTING]

\* The timeout of scheduleReconnect fires: connect().
reconnectTimerFires ==
  /\ timer # Null
  /\ timer' = Null
  /\ LET r == connect(client, socket)
     IN  client' = r.client /\ socket' = r.socket
  /\ UNCHANGED <<storeVars, wsVars, reachable, delays, signalHistory, fetching,
                 handled>>

\* clearTimeout(id) while the timeout tm is pending.
clearTimeout(tm, id) == IF tm # Null /\ tm[1].id = id THEN Null ELSE tm

\* close() that leaves the pending timeout.
wsClientCloseLeaky(cl, sock, tm) ==
  [client |-> [cl EXCEPT !.forcedClose = TRUE, !.reconnectTimeout = Null,
                         !.ws = FALSE],
   timer |-> tm,
   socket |-> IF cl.ws /\ sock \in {CONNECTING, OPEN} THEN CLOSING ELSE sock]

\* WSClient.close()
wsClientClose(cl, sock, tm) ==
  [client |-> [cl EXCEPT !.forcedClose = TRUE, !.reconnectTimeout = Null,
                         !.ws = FALSE],
   timer |-> IF cl.reconnectTimeout # Null
             THEN clearTimeout(tm, cl.reconnectTimeout[1]) ELSE tm,
   socket |-> IF cl.ws /\ sock \in {CONNECTING, OPEN} THEN CLOSING ELSE sock]

\* The page calls close().
closeRequested ==
  /\ LET r == wsClientClose(client, socket, timer)
     IN  client' = r.client /\ socket' = r.socket /\ timer' = r.timer
  /\ UNCHANGED <<storeVars, wsVars, reachable, delays, signalHistory, fetching,
                 handled>>

\* The server starts to accept connections.
serverComesUp ==
  /\ ~reachable
  /\ reachable' = TRUE
  /\ UNCHANGED <<storeVars, wsVars, client, socket, timer, delays,
                 signalHistory, fetching, handled>>

\* The server stops accepting connections.
serverGoesDown ==
  /\ reachable
  /\ reachable' = FALSE
  /\ UNCHANGED <<storeVars, wsVars, client, socket, timer, delays,
                 signalHistory, fetching, handled>>

NextClient ==
  \/ wsOnopen
  \/ connectionFails
  \/ connectionLost
  \/ closeCompletes
  \/ reconnectTimerFires
  \/ closeRequested
  \/ serverComesUp
  \/ serverGoesDown

SpecClient == Init /\ [][NextClient]_vars

\* The browser runs a timeout that is due and delivers the open and close
\* events of a socket.
SpecClientFair ==
  /\ SpecClient
  /\ WF_vars(reconnectTimerFires)
  /\ WF_vars(wsOnopen)
  /\ WF_vars(closeCompletes)

(***************************************************************************)
(* The dashboard (dashboard.js): the page loads while the bot runs.  The   *)
(* page's connection is consumer 1 of the channel.                         *)
(***************************************************************************)
\* The page.
Page == 1

\* addToSignalHistory(data): signalHistory afterwards.  Of the fields of an
\* entry the model keeps timestamp and signal; value is history: the tick of
\* the snapshot the entry was made from.
addToSignalHistory(history, data) ==
  LET historyEntry ==
        [timestamp |-> field(data, "timestamp"),
         signal |-> IF truthy(field(data, "signal")) THEN data.signal
                    ELSE Str("NO TRADE"),
         value |-> data.value]
      unshifted == <<historyEntry>> \o history
  IN  IF Len(unshifted) > maxSignalHistory
      THEN SubSeq(unshifted, 1, Len(unshifted) - 1)
      ELSE unshifted

\* Dashboard.init(): the WSClient is built, then fetchInitialData() asks for
\* /api/current.
pageLoads ==
  /\ fetching.stage = "idle"
  /\ fetching' = [stage |-> "current", response |-> Null, since |-> adds]
  /\ UNCHANGED <<storeVars, wsVars, client, socket, timer, reachable, delays,
                 signalHistory, handled>>

\* The connection the page's WSClient asked for is made while the page
\* loads.
pageConnects ==
  /\ fetching.stage \in {"current", "history"}
  /\ wsConnection(Page)
  /\ UNCHANGED browserVars

\* The server answers GET /api/current.
serveCurrent ==
  /\ fetching.stage = "current"
  /\ fetching.response = Null
  /\ fetching' = [fetching EXCEPT !.response = Some(currentResponse(buffer))]
  /\ UNCHANGED <<storeVars, wsVars, client, socket, timer, reachable, delays,
                 signalHistory, handled>>

\* fetchInitialData, first response: handleDataUpdate(data) if it is ok,
\* then the request of the history.
gotCurrent ==
  /\ fetching.stage = "current"
  /\ fetching.response # Null
  /\ LET response == fetching.response[1]
     IN  signalHistory' = IF response.status = Ok
                          THEN addToSignalHistory(signalHistory, response.body)
                          ELSE signalHistory
  /\ fetching' = [fetching EXCEPT !.stage = "history", !.response = Null]
  /\ UNCHANGED <<storeVars, wsVars, client, socket, timer, reachable, delays,
                 handled>>

\* The server answers GET /api/history?limit=50.
serveHistory ==
  /\ fetching.stage = "history"
  /\ fetching.response = Null
  /\ fetching' = [fetching EXCEPT !.response =
                     Some(historyResponse(buffer, Digits(HistoryLimit), Absent))]
  /\ UNCHANGED <<storeVars, wsVars, client, socket, timer, reachable, delays,
                 signalHistory, handled>>

\* this.signalHistory = historyData.rows || []
assignHistory(body) == body.rows

\* fetchInitialData, second response.
gotHistory ==
  /\ fetching.stage = "history"
  /\ fetching.response # Null
  /\ LET historyResponse0 == fetching.response[1]
     IN  signalHistory' = IF historyResponse0.status = Ok
                          THEN assignHistory(historyResponse0.body)
                          ELSE signalHistory
  /\ fetching' = [fetching EXCEPT !.stage = "done", !.response = Null]
  /\ UNCHANGED <<storeVars, wsVars, client, socket, timer, reachable, delays,
                 handled>>

\* A fetch of fetchInitialData is rejected: the catch ends the function.
fetchFails ==
  /\ fetching.stage \in {"current", "history"}
  /\ fetching.response = Null
  /\ fetching' = [fetching EXCEPT !.stage = "done", !.response = Null]
  /\ UNCHANGED <<storeVars, wsVars, client, socket, timer, reachable, delays,
                 signalHistory, handled>>

\* ws.onmessage in the page for the next message the server sent:
\* handleMessage emits data for a snapshot and for an update, and the
\* listener calls handleDataUpdate.
pageOnmessage ==
  /\ handled < Len(sockets[Page].sent)
  /\ handled' = handled + 1
  /\ LET message == sockets[Page].sent[handled + 1].json
     IN  signalHistory' = IF message.type \in {"snapshot", "update"}
                          THEN addToSignalHistory(signalHistory, message.data)
                          ELSE signalHistory
  /\ UNCHANGED <<storeVars, wsVars, client, socket, timer, reachable, delays,
                 fetching>>

\* The main loop adds its next snapshot, for as long as the page is watched;
\* the message of the second before has reached the page by then.
mainLoopAddDashboard ==
  /\ last.op # "add"
  /\ adds < MaxDashAdds
  /\ handled = Len(sockets[Page].sent)
  /\ fetching.stage \in {"current", "history"} =>
       adds < fetching.since + MaxDuringLoad
  /\ adds' = adds + 1
  /\ LET snapshot == [value |-> adds + 1]
         s == timestampedSnapshot(snapshot, clock, clock)
     IN  /\ buffer' = pushShift(buffer, s, maxSize)
         /\ log' = Append(log, s)
         /\ last' = [op |-> "add", snapshot |-> snapshot, now |-> clock]
  /\ held' = NoArray
  /\ UNCHANGED <<maxSize, startTime, clock, cleared, wsVars, browserVars>>

\* The store of the bot, with the default capacity.
InitDashboard ==
  /\ maxSize = DefaultMaxSize
  /\ buffer = <<>>
  /\ clock = 1
  /\ startTime = 1
  /\ held = NoArray
  /\ last = [op |-> "new"]
  /\ adds = 0
  /\ log = <<>>
  /\ cleared = FALSE
  /\ clients = <<>>
  /\ sockets = [c \in Consumers |-> NoSocket]
  /\ heartbeatInterval = "set"
  /\ shutdown = "listening"
  /\ uncaught = FALSE
  /\ client = NewClient
  /\ socket = CONNECTING
  /\ timer = Null
  /\ reachable = FALSE
  /\ delays = <<>>
  /\ signalHistory = <<>>
  /\ fetching = NotFetching
  /\ handled = 0

NextDashboard ==
  \/ mainLoopAddDashboard
  \/ broadcast /\ UNCHANGED browserVars
  \/ pageLoads
  \/ pageConnects
  \/ pageOnmessage
  \/ serveCurrent
  \/ gotCurrent
  \/ serveHistory
  \/ gotHistory
  \/ fetchFails

SpecDashboard == InitDashboard /\ [][NextDashboard]_vars

(***************************************************************************)
(* Properties of the Snapshot Store                                        *)
(***************************************************************************)
\* The last n elements of seq.
LastN(seq, n) == SubSeq(seq, Len(seq) - n + 1, Len(seq))

\* The step is a call of add().
IsAdd == adds' = adds + 1

\* C1: the buffer never holds more than maxSize snapshots, and as long as
\* clear() has not been called its length after the k-th add is min(k, maxSize).
C1_LengthIsMin ==
  /\ Len(buffer) <= maxSize
  /\ ~cleared => Len(buffer) = Min(adds, maxSize)

C1_Witness == ~cleared /\ last.op = "add" /\ adds > maxSize /\ maxSize > 1

\* C2: eviction is FIFO and keeps the order: getAll() returns the last
\* min(k, maxSize) snapshots added (k adds since the Store was new or cleared),
\* oldest first, so that its first element is the (k - maxSize + 1)-th added
\* when k > maxSize; an add at capacity removes the oldest snapshot and no
\* other, an add below capacity removes none.
C2_FifoEviction ==
  [][/\ last'.op = "getAll" =>
          /\ last'.result = LastN(log', Min(Len(log'), maxSize))
          /\ Len(log') > maxSize =>
                last'.result[1] = log'[Len(log') - maxSize + 1]
     /\ IsAdd =>
          buffer' = IF Len(buffer) = maxSize
                      THEN Append(Tail(buffer), log'[Len(log')])
                      ELSE Append(buffer, log'[Len(log')])]_vars

C2_Witness ==
  /\ last.op = "getAll"
  /\ maxSize > 1
  /\ Len(log) > maxSize
  /\ last.result[1].value = Len(log) - maxSize + 1

\* C3: getRecent(c), c >= 0, returns the min(c, length) most recently added
\* snapshots, oldest first.
C3_RecentIsLastMin ==
  last.op = "getRecent" =>
    last.result = LastN(log, Min(last.count, Len(buffer)))

\* C4: getLast() returns the snapshot of the most recent add that no clear()
\* followed, and null exactly when the buffer is empty.
C4_LastIsNewest ==
  last.op = "getLast" =>
    /\ last.result = IF Len(log) > 0 THEN Some(log[Len(log)]) ELSE Null
    /\ last.result = Null <=> Len(buffer) = 0

C4_Witness ==
  /\ last.op = "getLast"
  /\ cleared
  /\ Len(buffer) > 1
  /\ last.result = Some(buffer[Len(buffer)])

\* C5: add() stamps the stored snapshot with the clock's value at the call,
\* whatever timestamp the producer supplied, and the timestamps of the
\* retained snapshots never decrease from the oldest to the newest.
C5_StampedByStore ==
  /\ last.op = "add" => buffer[Len(buffer)].timestamp = last.now
  /\ \A i, j \in 1..Len(buffer) :
       i < j => buffer[i].timestamp <= buffer[j].timestamp

C5_Witness ==
  /\ last.op = "add"
  /\ "timestamp" \in DOMAIN last.snapshot
  /\ last.snapshot.timestamp # last.now
  /\ Len(buffer) > 1
  /\ buffer[1].timestamp < buffer[Len(buffer)].timestamp

\* What the Store's reads return in the current state.
reads ==
  [getAll |-> getAllResult(buffer).elems,
   getRecent |-> [c \in 0..MaxCount |-> getRecentResult(buffer, c).elems],
   getLast |-> getLastResult(buffer),
   getStats |-> getStatsResult(buffer, maxSize, startTime, clock)]

\* C6: getAll() and getRecent() return a copy: a caller that pushes to, pops
\* from or reverses the array it was given changes nothing of what getAll,
\* getRecent, getLast and getStats return afterwards.
C6_ReturnsCopy ==
  [][last'.op = "callerMutates" /\ held' # held => reads' = reads]_vars

C6_Witness ==
  /\ last.op = "callerMutates"
  /\ Len(buffer) > 1
  /\ held.elems # buffer

\* C7: a stored snapshot is never changed: across every step (add, clear,
\* the reads, the REST handlers), a snapshot that is retained before and
\* after the step (the same add put it there) has the same fields and values.
C7_SnapshotsImmutable ==
  [][\A i \in 1..Len(buffer), j \in 1..Len(buffer') :
       adds - Len(buffer) + i = adds' - Len(buffer') + j =>
         buffer'[j] = buffer[i]]_vars

C7_Witness ==
  /\ last.op = "add"
  /\ Len(buffer) > 1
  /\ adds > maxSize
  /\ buffer[1].timestamp < last.now

\* C8: getStats() reports count = the buffer's length, maxSize = the
\* capacity, utilization = 100 * count / maxSize (100 exactly at capacity) and
\* the timestamps of the first and the last retained snapshot, null when the
\* buffer is empty.
C8_StatsMatchBuffer ==
  last.op = "getStats" =>
    LET r == last.result
        n == Len(buffer)
    IN  /\ r.count = n
        /\ r.maxSize = maxSize
        /\ r.utilization.num * maxSize = Percent * n * r.utilization.den
        /\ (r.utilization.num = Percent * r.utilization.den) <=> (n = maxSize)
        /\ r.oldestTimestamp =
             IF n = 0 THEN Null ELSE Some(log[Len(log) - n + 1].timestamp)
        /\ r.newestTimestamp =
             IF n = 0 THEN Null ELSE Some(log[Len(log)].timestamp)

C8_Witness ==
  /\ last.op = "getStats"
  /\ Len(buffer) = maxSize
  /\ maxSize > 1
  /\ last.result.oldestTimestamp # last.result.newestTimestamp

\* C9: on the empty buffer every read answers with an empty result: getLast()
\* null, getRecent(c) and getAll() empty, getStats() count 0 and null
\* timestamps, GET /status lastUpdate null and bufferSize 0, GET /history
\* rows empty, total 0 and hasMore false.
C9_EmptyBufferResults ==
  Len(buffer) = 0 =>
    /\ last.op = "getLast" => last.result = Null
    /\ last.op \in {"getRecent", "getAll"} => last.result = <<>>
    /\ last.op = "getStats" =>
         /\ last.result.count = 0
         /\ last.result.oldestTimestamp = Null
         /\ last.result.newestTimestamp = Null
    /\ last.op = "GET /status" =>
         /\ last.result.status = Ok
         /\ last.result.body.lastUpdate = Null
         /\ last.result.body.bufferSize = 0
    /\ last.op = "GET /history" =>
         /\ last.result.status = Ok
         /\ last.result.body.rows = <<>>
         /\ last.result.body.total = 0
         /\ last.result.body.hasMore = FALSE

\* C10: GET /current answers with the snapshot getLast() returns, as it is,
\* whenever the buffer is not empty, and with the 404 "no data" error
\* exactly when it is empty.
C10_CurrentOr404 ==
  last.op = "GET /current" =>
    /\ Len(buffer) > 0 =>
         last.result = [status |-> Ok, body |-> log[Len(log)]]
    /\ Len(buffer) = 0 =>
         last.result = [status |-> NotFound,
                        body |-> [error |-> "No data available yet"]]
    /\ last.result.status \in {Ok, NotFound}
    /\ last.result.status = NotFound <=> Len(buffer) = 0

C10_Witness ==
  /\ last.op = "GET /current"
  /\ cleared
  /\ Len(buffer) > 0
  /\ last.result.body = buffer[Len(buffer)]

(***************************************************************************)
(* Properties of GET /history                                              *)
(***************************************************************************)
\* n clamped to [0, total].
Clamp(n, total) == Max(0, Min(n, total))

\* C11: the pagination invariant of GET /history, for a limit and an offset
\* that are not negative: rows.length = min(limit, max(0, total - offset)) and
\* hasMore = (offset + limit < total), total being the History's length, also
\* for an offset larger than total.
C11_Pagination ==
  last.op = "GET /history" =>
    LET b == last.result.body
    IN  (b.limit >= 0 /\ b.offset >= 0) =>
          /\ b.total = Len(buffer)
          /\ Len(b.rows) = Min(b.limit, Max(0, b.total - b.offset))
          /\ b.hasMore = (b.offset + b.limit < b.total)

\* C12: the rows of GET /history, for a limit and an offset that are not
\* negative, are the History's elements at the indices
\* [total - offset - limit, total - offset) clamped to [0, total], oldest first.
C12_Window ==
  last.op = "GET /history" =>
    LET b == last.result.body
    IN  (b.limit >= 0 /\ b.offset >= 0) =>
          b.rows = SubSeq(buffer,
                          Clamp(b.total - b.offset - b.limit, b.total) + 1,
                          Clamp(b.total - b.offset, b.total))

\* C13: whatever the query string of GET /history (absent, non-numeric, zero,
\* negative or huge values), the response is a normal one, its limit is at
\* most 1000, and 100 when limit is absent or non-numeric, and its offset is 0
\* when offset is absent or non-numeric.
C13_QueryDefaults ==
  [][\A limitQ \in LimitQueries, offsetQ \in OffsetQueries :
       apiHistory(limitQ, offsetQ) =>
         /\ last'.result.status = Ok
         /\ last'.result.body.limit <= MaxLimit
         /\ limitQ \in {Absent, Text} => last'.result.body.limit = DefaultLimit
         /\ offsetQ \in {Absent, Text} => last'.result.body.offset = 0]_vars

C13_Witness ==
  /\ last.op = "GET /history"
  /\ last.result.body.limit = MaxLimit
  /\ last.result.body.offset < 0
  /\ Len(buffer) > 0

(***************************************************************************)
(* Properties of GET /performance                                          *)
(***************************************************************************)
\* The positions of seq.
Indices(seq) == 1..Len(seq)

\* Snapshot s has the string text as its signal.
SignalIs(s, text) ==
  /\ "signal" \in DOMAIN s
  /\ s.signal.t = "string"
  /\ s.signal.s = text

\* Snapshot s has an edge object whose field channel is a finite number.
FiniteEdge(s, channel) ==
  /\ "edge" \in DOMAIN s
  /\ s.edge.t = "object"
  /\ channel \in DOMAIN s.edge.fields
  /\ s.edge.fields[channel].t = "number"
  /\ s.edge.fields[channel].class = "finite"

\* The positions of seq whose snapshot has a finite value on the channel.
Finites(seq, channel) == {i \in Indices(seq) : FiniteEdge(seq[i], channel)}

EdgeValue(s, channel) == s.edge.fields[channel].v

\* The sum of the channel's values at the positions in S.
RECURSIVE SumAt(_, _, _)
SumAt(seq, channel, S) ==
  IF S = {} THEN 0
  ELSE LET i == CHOOSE j \in S : TRUE
       IN  EdgeValue(seq[i], channel) + SumAt(seq, channel, S \ {i})

\* The mean of the channel's finite values, null when there is none.
AverageOf(seq, channel) ==
  IF Finites(seq, channel) = {} THEN Null
  ELSE Some(Divide(SumAt(seq, channel, Finites(seq, channel)),
                   Cardinality(Finites(seq, channel))))

\* The largest of the channel's finite values, null when there is none.
MaxOf(seq, channel) ==
  IF Finites(seq, channel) = {} THEN Null
  ELSE LET top == CHOOSE i \in Finites(seq, channel) :
                    \A j \in Finites(seq, channel) :
                      EdgeValue(seq[j], channel) <= EdgeValue(seq[i], channel)
       IN  Some(EdgeValue(seq[top], channel))

\* The number of strictly positive finite values of the channel.
PositiveOf(seq, channel) ==
  Cardinality({i \in Finites(seq, channel) : EdgeValue(seq[i], channel) > 0})

\* A snapshot's field key holds a non-empty string.
HasText(s, key) == key \in DOMAIN s /\ s[key].t = "string" /\ s[key].s # ""

\* The regime label of snapshot s.
Label(s) ==
  IF HasText(s, "regime") THEN s.regime.s
  ELSE IF /\ "regimeInfo" \in DOMAIN s
          /\ s.regimeInfo.t = "object"
          /\ HasText(s.regimeInfo.fields, "regime")
       THEN s.regimeInfo.fields.regime.s
       ELSE "UNKNOWN"

\* The sum of f over the keys in S.
RECURSIVE SumOver(_, _)
SumOver(f, S) ==
  IF S = {} THEN 0
  ELSE LET k == CHOOSE x \in S : TRUE IN f[k] + SumOver(f, S \ {k})

IsPerformance == last.op = "GET /performance"

\* C14: on an empty History GET /performance answers normally with every
\* count 0, every average and maximum null and an empty regimeDistribution.
C14_EmptyReport ==
  (IsPerformance /\ buffer = <<>>) =>
    /\ last.result.status = Ok
    /\ last.result.body =
         [totalSignals |-> 0,
          buyUpCount |-> 0, buyDownCount |-> 0, noTradeCount |-> 0,
          averageEdgeUp |-> Null, averageEdgeDown |-> Null,
          maxEdgeUp |-> Null, maxEdgeDown |-> Null,
          positiveEdgeCount |-> 0,
          regimeDistribution |-> <<>>]

C14_Witness == IsPerformance /\ buffer = <<>> /\ cleared /\ adds > 0

\* C15: every snapshot of the History is counted in exactly one bucket, signal
\* 'BUY UP' in buyUpCount, 'BUY DOWN' in buyDownCount, anything else (a
\* missing or unrecognised signal too) in noTradeCount, so that the three
\* counts add up to totalSignals, the History's length.
C15_SignalBuckets ==
  IsPerformance =>
    LET b == last.result.body
        ups == {i \in Indices(buffer) : SignalIs(buffer[i], "BUY UP")}
        downs == {i \in Indices(buffer) : SignalIs(buffer[i], "BUY DOWN")}
    IN  /\ b.buyUpCount = Cardinality(ups)
        /\ b.buyDownCount = Cardinality(downs)
        /\ b.noTradeCount = Cardinality(Indices(buffer) \ (ups \cup downs))
        /\ b.buyUpCount + b.buyDownCount + b.noTradeCount = b.totalSignals
        /\ b.totalSignals = Len(buffer)

C15_Witness ==
  /\ IsPerformance
  /\ last.result.body.buyUpCount > 0
  /\ last.result.body.buyDownCount > 0
  /\ \E i \in Indices(buffer) : "signal" \notin DOMAIN buffer[i]

\* The History before its newest snapshot was added, nothing being evicted.
Before == SubSeq(buffer, 1, Len(buffer) - 1)

\* The sum, count and maximum GET /performance keeps for a channel over data.
ChannelTotals(data, channel) ==
  LET t == aggregate(initialTotals, data)
  IN  IF channel = "edgeUp"
      THEN <<t.edgeUpSum, t.edgeUpCount, t.maxEdgeUp>>
      ELSE <<t.edgeDownSum, t.edgeDownCount, t.maxEdgeDown>>

\* C16: a snapshot whose edge is missing, or whose edgeUp (edgeDown) is null,
\* undefined, NaN, an infinity or not a number, leaves the sum, the count, the
\* average and the maximum of that channel as they were without it, and the
\* request is answered normally.
C16_NonFiniteIgnored ==
  (IsPerformance /\ buffer # <<>>) =>
    LET b == last.result.body
        newest == buffer[Len(buffer)]
        was == performanceReport(Before)
    IN  /\ last.result.status = Ok
        /\ ~FiniteEdge(newest, "edgeUp") =>
             /\ ChannelTotals(buffer, "edgeUp") = ChannelTotals(Before, "edgeUp")
             /\ b.averageEdgeUp = was.averageEdgeUp
             /\ b.maxEdgeUp = was.maxEdgeUp
        /\ ~FiniteEdge(newest, "edgeDown") =>
             /\ ChannelTotals(buffer, "edgeDown") = ChannelTotals(Before, "edgeDown")
             /\ b.averageEdgeDown = was.averageEdgeDown
             /\ b.maxEdgeDown = was.maxEdgeDown

C16_Witness ==
  /\ IsPerformance
  /\ Len(buffer) >= 2
  /\ "edge" \in DOMAIN buffer[Len(buffer)]
  /\ buffer[Len(buffer)].edge.t = "object"
  /\ "edgeUp" \in DOMAIN buffer[Len(buffer)].edge.fields
  /\ buffer[Len(buffer)].edge.fields.edgeUp.t = "number"
  /\ buffer[Len(buffer)].edge.fields.edgeUp.class = "NaN"
  /\ last.result.body.averageEdgeUp # Null

\* The History of the example: {signal: 'BUY UP', edge: {edgeUp: 0.05,
\* edgeDown: -0.02}} followed by {signal: 'NO TRADE', edge: {edgeUp: 0.10}}.
ExampleHistory ==
  /\ Len(buffer) = 2
  /\ SignalIs(buffer[1], "BUY UP")
  /\ FiniteEdge(buffer[1], "edgeUp") /\ EdgeValue(buffer[1], "edgeUp") = 5
  /\ FiniteEdge(buffer[1], "edgeDown") /\ EdgeValue(buffer[1], "edgeDown") = -2
  /\ SignalIs(buffer[2], "NO TRADE")
  /\ FiniteEdge(buffer[2], "edgeUp") /\ EdgeValue(buffer[2], "edgeUp") = 10
  /\ "edgeDown" \notin DOMAIN buffer[2].edge.fields

\* C17: each average is the sum of the channel's finite values divided by
\* their number, and null when there is none; after the two snapshots of the
\* example averageEdgeUp is 0.075 (15/2 hundredths), buyUpCount 1 and
\* noTradeCount 1.
C17_Average ==
  IsPerformance =>
    LET b == last.result.body
    IN  /\ b.averageEdgeUp = AverageOf(buffer, "edgeUp")
        /\ b.averageEdgeDown = AverageOf(buffer, "edgeDown")
        /\ ExampleHistory =>
             /\ b.averageEdgeUp = Some([num |-> 15, den |-> 2])
             /\ b.buyUpCount = 1
             /\ b.noTradeCount = 1

C17_Witness == IsPerformance /\ ExampleHistory

\* C18: positiveEdgeCount is the number of strictly positive finite edgeUp
\* values plus the number of strictly positive finite edgeDown values, and
\* maxEdgeUp/maxEdgeDown is the largest finite value of its channel, null when
\* the channel has none.
C18_PositiveAndMax ==
  IsPerformance =>
    LET b == last.result.body
    IN  /\ b.positiveEdgeCount =
             PositiveOf(buffer, "edgeUp") + PositiveOf(buffer, "edgeDown")
        /\ b.maxEdgeUp = MaxOf(buffer, "edgeUp")
        /\ b.maxEdgeDown = MaxOf(buffer, "edgeDown")

C18_Witness ==
  /\ IsPerformance
  /\ last.result.body.maxEdgeUp = Some(0)
  /\ last.result.body.maxEdgeDown # Null
  /\ last.result.body.maxEdgeDown[1] < 0
  /\ Len(buffer) >= 2

\* C19: regimeDistribution maps each regime label to the number of snapshots
\* carrying it, a snapshot's label being its regime field, else its
\* regimeInfo.regime field, else 'UNKNOWN', and the counts add up to
\* totalSignals.
C19_RegimeDistribution ==
  IsPerformance =>
    LET b == last.result.body
        dist == b.regimeDistribution
    IN  /\ DOMAIN dist = {Label(buffer[i]) : i \in Indices(buffer)}
        /\ \A label \in DOMAIN dist :
             dist[label] =
               Cardinality({i \in Indices(buffer) : Label(buffer[i]) = label})
        /\ SumOver(dist, DOMAIN dist) = b.totalSignals

C19_Witness ==
  /\ IsPerformance
  /\ "UNKNOWN" \in DOMAIN last.result.body.regimeDistribution
  /\ \E i \in Indices(buffer) :
       /\ "regime" \notin DOMAIN buffer[i]
       /\ Label(buffer[i]) = "RANGE"
  /\ \E i \in Indices(buffer) :
       /\ HasText(buffer[i], "regime")
       /\ "regimeInfo" \in DOMAIN buffer[i]
       /\ Label(buffer[i]) = "RANGE"

\* C20: GET /performance leaves the buffer as it was, and a request that
\* follows another with no add in between is answered with the same report.
C20_Idempotent ==
  [][last'.op = "GET /performance" =>
       /\ buffer' = buffer
       /\ maxSize' = maxSize
       /\ IsPerformance => last'.result = last.result]_vars

C20_Witness ==
  /\ IsPerformance
  /\ Len(buffer) >= 2
  /\ last.result.body.positiveEdgeCount > 0
  /\ Cardinality(DOMAIN last.result.body.regimeDistribution) >= 2

\* The snapshots the store retains, told from the history of the add calls
\* since the last clear(): the newest maxSize of them.
Retained == LastN(log, Min(Len(log), maxSize))

\* C21: under any interleaving of add calls and requests, the report of GET
\* /performance is the aggregation of exactly the snapshots retained at the
\* moment of the request: the most recent add is in it, every evicted
\* snapshot is not.
C21_NeverStale ==
  IsPerformance =>
    /\ last.result.body = performanceReport(Retained)
    /\ last.result.body.totalSignals = Min(Len(log), maxSize)

C21_Witness ==
  /\ IsPerformance
  /\ Len(log) > maxSize
  /\ maxSize >= 2
  /\ last.result.body.totalSignals = maxSize
  /\ SignalIs(log[1], "BUY UP")
  /\ last.result.body.buyUpCount = 0
  /\ SignalIs(log[Len(log)], "BUY DOWN")
  /\ last.result.body.buyDownCount = 1

(***************************************************************************)
(* Properties of the live channel                                          *)
(***************************************************************************)
\* Consumer c connects in this step.
Connects(c) ==
  sockets[c].readyState = CONNECTING /\ sockets'[c].readyState = OPEN

\* The messages consumer c is sent in this step.
NewlySent(c) ==
  SubSeq(sockets'[c].sent, Len(sockets[c].sent) + 1, Len(sockets'[c].sent))

\* Nothing sent to consumer c is taken back.
KeepsSent(c) ==
  /\ Len(sockets'[c].sent) >= Len(sockets[c].sent)
  /\ SubSeq(sockets'[c].sent, 1, Len(sockets[c].sent)) = sockets[c].sent

\* C22: a consumer that connects while the History is not empty is sent
\* exactly one 'snapshot' message, with the store's latest snapshot at that
\* moment, before any 'update' message; one that connects while the History
\* is empty is sent no 'snapshot' message, then or later.
C22_SnapshotOnConnect ==
  [][\A c \in Consumers :
       /\ KeepsSent(c)
       /\ IF Connects(c)
          THEN /\ sockets[c].sent = <<>>
               /\ IF buffer = <<>>
                  THEN NewlySent(c) = <<>>
                  ELSE /\ Len(NewlySent(c)) = 1
                       /\ NewlySent(c)[1].json.type = "snapshot"
                       /\ NewlySent(c)[1].json.data = buffer[Len(buffer)]
          ELSE \A i \in 1..Len(NewlySent(c)) :
                 NewlySent(c)[i].json.type # "snapshot"]_vars

C22_Witness ==
  \E c, d \in Consumers :
    /\ Len(sockets[c].sent) = 2
    /\ sockets[c].sent[1].json.type = "snapshot"
    /\ sockets[c].sent[1].json.data.value = 1
    /\ sockets[c].sent[2].json.type = "update"
    /\ sockets[c].sent[2].json.data.value = 2
    /\ Len(sockets[d].sent) >= 1
    /\ sockets[d].sent[1].json.type = "update"

\* Consumer c is in the registry.
Registered(c) == \E i \in 1..Len(clients) : clients[i] = c

\* The consumers a broadcast has to reach: registered and open.
Audience == {c \in Consumers : Registered(c) /\ sockets[c].readyState = OPEN}

\* This step is a call of broadcast.
Broadcasts == last.op = "add" /\ last'.op = "broadcast"

\* getClientCount()
ClientCount == Len(clients)

\* C23: a broadcast builds one 'update' message for its snapshot and calls
\* send with that message exactly once for every consumer that is registered
\* and open at that moment (the message goes out unless that send throws),
\* and for no other consumer.
C23_BroadcastOncePerOpen ==
  [][Broadcasts =>
       LET m == last'.message
       IN  /\ m.json.type = "update"
           /\ m.json.data = last.snapshot
           /\ last'.successCount + last'.failCount = Cardinality(Audience)
           /\ last'.failCount =
                Cardinality({c \in Audience : sockets[c].throws})
           /\ \A c \in Consumers :
                /\ KeepsSent(c)
                /\ NewlySent(c) =
                     IF c \in Audience /\ ~sockets[c].throws
                     THEN <<m>> ELSE <<>>]_vars

C23_Witness ==
  /\ last.op = "broadcast"
  /\ last.successCount = 2
  /\ \E c \in Consumers :
       /\ Registered(c)
       /\ sockets[c].readyState = CLOSING
       /\ \A i \in 1..Len(sockets[c].sent) : sockets[c].sent[i] # last.message
  /\ Cardinality({c \in Consumers :
                    /\ sockets[c].sent # <<>>
                    /\ sockets[c].sent[Len(sockets[c].sent)] = last.message}) = 2

\* C24: when the send to one consumer throws during a broadcast, whatever
\* its place in the registry, every other open consumer is still sent the
\* update message of that broadcast, and broadcast does not throw.
C24_FanOutIsolation ==
  [][(Broadcasts /\ \E f \in Audience : sockets[f].throws) =>
       /\ last'.threw = FALSE
       /\ \A c \in Audience :
            ~sockets[c].throws =>
              /\ sockets'[c].sent = Append(sockets[c].sent, last'.message)
              /\ last'.message.json.data = last.snapshot]_vars

C24_Witness ==
  /\ last.op = "broadcast"
  /\ Len(clients) = 3
  /\ sockets[clients[1]].throws
  /\ sockets[clients[1]].readyState = OPEN
  /\ last.failCount = 1
  /\ last.successCount = 2
  /\ \A i \in 2..3 :
       sockets[clients[i]].sent[Len(sockets[clients[i]].sent)] = last.message

\* C25: a consumer whose send throws during a broadcast is dropped from the
\* registry by that broadcast, so that getClientCount() no longer counts it,
\* while every other consumer stays registered.
C25_ThrowingConsumerDropped ==
  [][Broadcasts =>
       LET thrown == {c \in Audience : sockets[c].throws}
       IN  /\ \A i \in 1..Len(clients') : clients'[i] \notin thrown
           /\ \A c \in Consumers \ thrown :
                Registered(c) => \E i \in 1..Len(clients') : clients'[i] = c
           /\ Len(clients') = ClientCount - Cardinality(thrown)]_vars

\* C26: at each tick of the heartbeat every connected consumer that answered
\* since the last tick is marked unconfirmed and probed; one that has not
\* answered (pong) since the last tick is terminated at this tick, so no
\* consumer stays open over two ticks without an answer, and the close event
\* that follows the termination takes it out of the registry.
C26_Heartbeat ==
  /\ [][/\ heartbeat =>
            \A c \in Consumers :
              IF sockets[c].readyState \notin {OPEN, CLOSING}
              THEN sockets'[c] = sockets[c]
              ELSE IF sockets[c].isAlive
                   THEN /\ sockets'[c].isAlive = FALSE
                        /\ sockets'[c].readyState = sockets[c].readyState
                   ELSE sockets'[c].readyState = CLOSING
        /\ \A c \in Consumers :
             /\ sockets'[c].readyState = OPEN =>
                  /\ sockets'[c].silentTicks <= 1
                  /\ sockets'[c].isAlive = (sockets'[c].silentTicks = 0)
             /\ sockets'[c].readyState = CLOSED =>
                  \A i \in 1..Len(clients') : clients'[i] # c]_vars
  /\ \A c \in Pair :
       [](sockets[c].readyState = CLOSING => <>(~Registered(c)))

C26_Witness ==
  \E c, d \in Pair :
    /\ sockets[c].readyState = CLOSED
    /\ sockets[c].silentTicks = 2
    /\ ~sockets[c].isAlive
    /\ ~Registered(c)
    /\ sockets[d].readyState = OPEN
    /\ sockets[d].isAlive
    /\ Registered(d)
    /\ last.op = "broadcast"
    /\ sockets[d].sent[Len(sockets[d].sent)] = last.message

\* C27: once a consumer's connection is closing or closed (it or the server
\* ended it, or the heartbeat terminated it) no send is made to it any more,
\* and once it is closed it is out of the registry.
C27_NoSendAfterClose ==
  [][\A c \in Consumers :
       /\ sockets[c].readyState \in {CLOSING, CLOSED} =>
            sockets'[c].sent = sockets[c].sent
       /\ sockets'[c].readyState = CLOSED =>
            \A i \in 1..Len(clients') : clients'[i] # c]_vars

C27_Witness ==
  \E c, d \in Pair :
    /\ sockets[c].readyState = CLOSED
    /\ sockets[c].isAlive
    /\ ~Registered(c)
    /\ sockets[c].sent # <<>>
    /\ last.op = "broadcast"
    /\ sockets[c].sent[Len(sockets[c].sent)] # last.message
    /\ sockets[d].readyState = OPEN
    /\ sockets[d].sent[Len(sockets[d].sent)] = last.message

\* C30: when close() of the web server has resolved, every consumer
\* connection is closed and the heartbeat timer is cleared, and close(), once
\* called, resolves, also with consumers connected.
C30_OrderlyShutdown ==
  /\ [](shutdown = "resolved" =>
          /\ \A c \in Consumers : sockets[c].readyState \in {CONNECTING, CLOSED}
          /\ heartbeatInterval = "cleared")
  /\ (shutdown = "wss closing" ~> shutdown = "resolved")

\* C28: an inbound {type: 'ping'} is answered with exactly one 'pong'
\* message, sent to the sender only; any other payload (another type, no
\* type, null, a number, a string, text that is no JSON) is answered with
\* nothing; in both cases no exception escapes the handler and the registry
\* and the store stay as they are.
C28_PingPong ==
  [][\A c \in Pair, text \in Payloads :
       wsMessage(c, text) =>
         /\ uncaught' = FALSE
         /\ clients' = clients
         /\ buffer' = buffer /\ maxSize' = maxSize /\ last' = last
         /\ \A d \in Consumers \ {c} : sockets'[d] = sockets[d]
         /\ sockets'[c].readyState = sockets[c].readyState
         /\ KeepsSent(c)
         /\ IF text = "{\"type\":\"ping\"}"
            THEN /\ Len(NewlySent(c)) = 1
                 /\ NewlySent(c)[1].json.type = "pong"
            ELSE NewlySent(c) = <<>>]_vars

C28_Witness ==
  \E c, d \in Pair :
    /\ sockets[c].readyState = OPEN
    /\ Len(sockets[c].sent) = 2
    /\ sockets[c].sent[1].json.type = "snapshot"
    /\ sockets[c].sent[2].json.type = "pong"
    /\ sockets[d].readyState = OPEN
    /\ Len(sockets[d].sent) = 1
    /\ ~uncaught
    /\ Len(clients) = 2

\* C29: the messages queued for a consumer and not read by it stay within a
\* limit: a consumer that does not read while broadcasts go on is
\* disconnected instead of being queued more.
C29_BoundedBacklog ==
  \A c \in Consumers :
    sockets[c].readyState = OPEN => sockets[c].bufferedAmount <= BacklogLimit

\* Consumer c's closed connection is replaced by a new one in this step.
Reconnects(c) ==
  sockets[c].readyState = CLOSED /\ sockets'[c].readyState = OPEN

\* C31: a consumer is sent nothing while it is not connected; when it
\* connects again it is sent the latest snapshot the store holds at that
\* moment, as one 'snapshot' message, and nothing else; every 'update' it is
\* ever sent is the message of the broadcast issued in that very step, so
\* the update of a broadcast it missed is never sent to it later.
C31_NoReplay ==
  [][\A c \in Pair :
       /\ KeepsSent(c)
       /\ (sockets[c].readyState # OPEN /\ sockets'[c].readyState # OPEN) =>
            NewlySent(c) = <<>>
       /\ Reconnects(c) =>
            NewlySent(c) = IF buffer = <<>> THEN <<>>
                           ELSE <<snapshotMessage(buffer[Len(buffer)])>>
       /\ \A i \in 1..Len(NewlySent(c)) :
            NewlySent(c)[i].json.type = "update" =>
              /\ Broadcasts
              /\ sockets[c].readyState = OPEN
              /\ NewlySent(c) = <<last'.message>>
              /\ last'.message.json.data = last.snapshot]_vars

C31_Witness ==
  \E c \in Pair :
    /\ Len(sockets[c].sent) = 3
    /\ sockets[c].sent[1].json.type = "snapshot"
    /\ sockets[c].sent[1].json.data.value = 1
    /\ sockets[c].sent[2].json.type = "snapshot"
    /\ sockets[c].sent[2].json.data.value = 2
    /\ sockets[c].sent[3].json.type = "update"
    /\ sockets[c].sent[3].json.data.value = 3
    /\ last.op = "broadcast"

\* C32: clear() empties the buffer and leaves the capacity and the start
\* time as they are; after a clear the store behaves as a new one of the same
\* capacity: its length is min(adds since the clear, capacity) and it holds
\* the last snapshots added since the clear, oldest first.
C32_ClearResets ==
  [][/\ clear =>
          /\ buffer' = <<>>
          /\ maxSize' = maxSize
          /\ startTime' = startTime
          /\ clock' = clock
     /\ cleared' =>
          /\ Len(buffer') = Min(Len(log'), maxSize')
          /\ buffer' = LastN(log', Len(buffer'))
          /\ maxSize' = maxSize]_vars

C32_Witness ==
  /\ cleared
  /\ last.op = "add"
  /\ adds > Len(log)
  /\ Len(log) > maxSize
  /\ maxSize > 1
  /\ Len(buffer) = maxSize
  /\ startTime < clock

\* The messages sent to consumer c over its present connection: those from
\* the last 'snapshot' message on.
Since(c) ==
  LET sent == sockets[c].sent
      marks == {i \in 1..Len(sent) : sent[i].json.type = "snapshot"}
      from == IF marks = {} THEN 1
              ELSE CHOOSE i \in marks : \A j \in marks : j <= i
  IN  SubSeq(sent, from, Len(sent))

\* The ticks of the updates among the messages of seq, in their order.
UpdatesOf(seq) ==
  LET ups == SelectSeq(seq, LAMBDA m : m.json.type = "update")
  IN  [i \in 1..Len(ups) |-> ups[i].json.data.value]

\* The number of broadcasts issued so far: one for every add, the add of
\* this moment excepted.
Issued == IF last.op = "add" THEN adds - 1 ELSE adds

C37_RegistryMatchesOpen ==
  LET open == {c \in Consumers : sockets[c].readyState = OPEN}
      closing == {c \in Consumers : sockets[c].readyState = CLOSING}
  IN  /\ \A c \in open : Registered(c)
      /\ \A c \in Consumers : Registered(c) => c \in open \cup closing
      /\ \A i, j \in 1..Len(clients) : clients[i] = clients[j] => i = j
      /\ Cardinality(open) <= ClientCount
      /\ ClientCount <= Cardinality(open \cup closing)

C37_Witness ==
  \E c, d \in Pair :
    /\ sockets[c].readyState = CLOSING
    /\ sockets[c].isAlive
    /\ ~Registered(c)
    /\ sockets[d].readyState = CLOSING
    /\ ~sockets[d].isAlive
    /\ sockets[d].silentTicks = 2
    /\ Registered(d)
    /\ ClientCount = 1
    /\ last.op = "broadcast"

\* C38: a tick of the heartbeat terminates an open consumer only if an
\* earlier tick has probed it and no pong of it has arrived since: a
\* consumer that has connected or answered since the last tick is open after
\* the tick.
C38_LiveNotTerminated ==
  [][heartbeat =>
       \A c \in Consumers :
         sockets[c].readyState = OPEN =>
           /\ sockets[c].silentTicks = 0 => sockets'[c].readyState = OPEN
           /\ sockets'[c].readyState # OPEN =>
                /\ sockets[c].silentTicks >= 1
                /\ ~sockets[c].isAlive]_vars

C38_Witness ==
  /\ sockets[1].readyState = OPEN
  /\ ~sockets[1].isAlive
  /\ sockets[1].silentTicks = 1
  /\ Registered(1)
  /\ sockets[2].readyState = CLOSING
  /\ sockets[2].silentTicks = 2
  /\ Len(sockets[1].sent) > Len(sockets[2].sent)

\* The reads of the Store and the REST handlers that read it.
ReadOps ==
  {"getRecent", "getAll", "getLast", "getStats",
   "GET /status", "GET /current", "GET /history"}

\* What the result r of the read op says of the buffer: the result itself,
\* without the uptime for getStats and GET /status.
OfBuffer(op, r) ==
  IF op = "getStats" THEN [r EXCEPT !.uptimeMs = 0]
  ELSE IF op = "GET /status"
       THEN [r EXCEPT !.body.uptime = 0, !.body.uptimeFormatted = 0]
       ELSE r

\* The step is a read with the arguments of the read before it.
RepeatsRead ==
  /\ last.op \in ReadOps
  /\ last'.op = last.op
  /\ last.op = "getRecent" => last'.count = last.count
  /\ last.op = "GET /history" =>
       /\ last'.result.body.limit = last.result.body.limit
       /\ last'.result.body.offset = last.result.body.offset

\* C39: a read (getRecent, getAll, getLast, getStats, GET /status, GET
\* /current, GET /history) leaves the buffer, the capacity and the start
\* time as they are, and a read repeated with no add, clear or other call
\* in between returns what it returned before (the uptime of getStats and
\* GET /status, which follows the clock, left aside).
C39_ReadsChangeNothing ==
  [][/\ last'.op \in ReadOps =>
          /\ buffer' = buffer
          /\ maxSize' = maxSize
          /\ startTime' = startTime
     /\ RepeatsRead =>
          OfBuffer(last'.op, last'.result) = OfBuffer(last.op, last.result)]_vars

C39_Witness ==
  /\ last.op = "getRecent"
  /\ last.count = 1
  /\ Len(buffer) > 1
  /\ last.result = <<buffer[Len(buffer)]>>
  /\ held.given
  /\ cleared

(***************************************************************************)
(* Properties of the dashboard's connection                                *)
(***************************************************************************)
\* b to the power k.
RECURSIVE Power(_, _)
Power(b, k) == IF k = 0 THEN 1 ELSE b * Power(b, k - 1)

\* The fraction q is the number num / den.
Equals(q, num, den) == q.num * den = num * q.den

\* p <= q for two fractions.
AtMost(p, q) == p.num * q.den <= q.num * p.den

\* C33: the delay of the n-th reconnect attempt in a row is
\* min(1000 * 1.5^(n-1), 30000) ms; the delays of successive attempts never
\* decrease and never exceed 30000 ms; the attempt counter counts the
\* attempts since the last open, and it is 0 while the connection is open, so
\* that the first delay after an open connection is the base interval.
C33_Backoff ==
  /\ client.reconnectAttempts = Len(delays)
  /\ socket = OPEN => client.reconnectAttempts = 0
  /\ \A n \in 1..Len(delays) :
       /\ IF 1000 * Power(3, n - 1) <= 30000 * Power(2, n - 1)
          THEN Equals(delays[n], 1000 * Power(3, n - 1), Power(2, n - 1))
          ELSE Equals(delays[n], 30000, 1)
       /\ AtMost(delays[n], Divide(30000, 1))
       /\ n > 1 => AtMost(delays[n - 1], delays[n])
  /\ delays # <<>> => Equals(delays[1], 1000, 1)

C33_Witness ==
  /\ Len(delays) >= 10
  /\ Equals(delays[2], 1500, 1)
  /\ Equals(delays[5], 10125, 2)
  /\ ~Equals(delays[9], 30000, 1)
  /\ Equals(delays[10], 30000, 1)
  /\ timer # Null
  /\ timer[1].delay = delays[Len(delays)]

\* C34: every close event of the client's socket that close() did not ask
\* for schedules exactly one timeout, none being pending, whatever the number
\* of attempts made before; a pending timeout ends with a new connection
\* attempt unless close() cancels it; and while the server is reachable the
\* client gets to the connected state, unless the server goes away again or
\* close() is called.
C34_Reconnects ==
  /\ [][(socket # CLOSED /\ socket' = CLOSED /\ ~client.forcedClose) =>
          /\ timer = Null
          /\ timer' # Null
          /\ client'.reconnectAttempts = client.reconnectAttempts + 1]_vars
  /\ [](timer # Null => <>(socket = CONNECTING \/ client.forcedClose))
  /\ []((reachable /\ ~client.forcedClose) =>
          <>(socket = OPEN \/ ~reachable \/ client.forcedClose))

C34_Witness ==
  /\ socket = OPEN
  /\ reachable
  /\ ~client.forcedClose
  /\ client.reconnectAttempts = 0
  /\ client.reconnectTimeout = Some(MaxFailures)

\* C40: once close() has been called no timeout of scheduleReconnect is
\* pending, the client's socket is closing or closed and never connects or
\* opens again, and the close event of that socket schedules nothing.
C40_NoReconnectAfterClose ==
  [][client'.forcedClose =>
       /\ timer' = Null
       /\ socket' \in {CLOSING, CLOSED}
       /\ client.forcedClose =>
            /\ socket' \in {socket, CLOSED}
            /\ client'.reconnectAttempts = client.reconnectAttempts
            /\ delays' = delays]_vars

C40_Witness ==
  /\ client.forcedClose
  /\ socket = CLOSED
  /\ timer = Null
  /\ client.reconnectAttempts > 1
  /\ ~reachable

(***************************************************************************)
(* Properties of the dashboard                                             *)
(***************************************************************************)
\* The entries of history come from newer snapshots first.
NewestFirst(history) ==
  \A i, j \in 1..Len(history) : i < j => history[i].value >= history[j].value

\* C35: signalHistory never holds more than 50 entries, its entries are
\* ordered newest first, and a step that adds an entry to a full
\* signalHistory drops the entry of the oldest snapshot.
C35_SignalHistory ==
  [][/\ Len(signalHistory') <= maxSignalHistory
     /\ NewestFirst(signalHistory')
     /\ (Len(signalHistory) = maxSignalHistory /\ signalHistory' # signalHistory
           /\ fetching' = fetching) =>
          \E k \in 1..maxSignalHistory :
            /\ \A i \in 1..maxSignalHistory :
                 signalHistory[k].value <= signalHistory[i].value
            /\ Tail(signalHistory') =
                 SubSeq(signalHistory, 1, k - 1)
                   \o SubSeq(signalHistory, k + 1, maxSignalHistory)]_vars

====
